---- MODULE Spec2Model ----
(***************************************************************************)
(* The observation pipeline of everything-claude-code: the observe.js     *)
(* recorder, the analyze-observations.js analysis trigger, the session    *)
(* evaluator, and the observer-utils library they share (rotation,        *)
(* archival, the session counter).  The file system the hooks share is    *)
(* the state; one run of a hook process, or one call of an exported       *)
(* library function, is one action.                                       *)
(*                                                                         *)
(* Conventions: a file is [exists, lines]; a JS number is [nan, n]; a     *)
(* string whose content does not matter is represented by its length; a   *)
(* session identifier is a sequence of one-character strings, so that     *)
(* sanitizeSessionId can be computed character by character.              *)
(***************************************************************************)
EXTENDS Integers, Sequences, FiniteSets, TLC

VARIABLES
  files,      \* log path -> [exists, lines]: the JSONL logs
  archive,    \* [exists, entries]: the observations.archive directory
  counters,   \* counter file name -> [exists, nan, n]: files in the temp dir
  pending,    \* [exists, timestamp, count]: the .pending-analysis marker
  disabled,   \* the 'disabled' marker file exists
  configFile, \* skills/continuous-learning-v2/config.json
  now,        \* wall clock, in seconds
  incs,       \* history: completed increments per counter since it was absent
  runs,       \* history: number of runs so far
  lastRun,    \* history: what the last run was and how it ended
  pathBins,   \* the binaries found on the command search path
  hooksPackages, \* [exists, bins]: ~/.claude/hooks-packages and its .bin
  resolvers,  \* hook process -> the findOrInstall call it is running
  installs,   \* history: package -> package manager runs that succeeded
  sessionEnv, \* CLAUDE_SESSION_ID in the environment of the session's hooks
  recorders,  \* hook process -> the run of observe.js it is in the middle of
  analysis    \* the run of analyze-observations.js and where it stands

resolverVars == <<pathBins, hooksPackages, resolvers, installs>>
sessionVars == <<sessionEnv, recorders, analysis>>

vars == <<files, archive, counters, pending, disabled, configFile, now,
          incs, runs, lastRun, pathBins, hooksPackages, resolvers, installs,
          sessionEnv, recorders, analysis>>

-----------------------------------------------------------------------------
(* Bounds of the model *)

MaxRuns == 3          \* hook runs per behaviour of Spec
MaxFaultRuns == 2     \* hook runs per behaviour of SpecFault
MaxCalls == 4         \* library calls per behaviour of SpecCounter, SpecArchive
MaxTime == 1          \* the clock stops at this second
MaxInputRuns == 2     \* hook runs per behaviour of SpecInput
MaxPostEdits == 2     \* hook runs per behaviour of SpecPostEdit
MaxDefaultsRuns == 2  \* hook runs per behaviour of SpecDefaults
MaxResolutions == 3   \* findOrInstall calls per behaviour of SpecInstall
MaxProcs == 2         \* hook processes resolving binaries at the same time
MaxSessionRuns == 3   \* hook runs per behaviour of SpecSession
MaxRecorders == 2     \* observe.js processes running at the same time

(* Program constants *)

MIN_OBSERVATIONS_DEFAULT == 20
MAX_FILE_SIZE_MB_DEFAULT == 10
TRUNCATE_CHARS == 5000
SESSION_ID_MAX == 64
MIN_SESSION_LENGTH_DEFAULT == 10
ISO_TIMESTAMP_CHARS == 24
BYTES_PER_MB == 1048576

-----------------------------------------------------------------------------
(* Values *)

Min(a, b) == IF a < b THEN a ELSE b

Num(k) == [nan |-> FALSE, n |-> k]
NaN == [nan |-> TRUE, n |-> 0]

\* a JSON value of the payload: absent, an object/array or a string, with the
\* length of its serialisation (JSON.stringify for objects, String otherwise)
NoVal == [t |-> "absent", len |-> 0]
ObjVal(k) == [t |-> "object", len |-> k]
StrVal(k) == [t |-> "string", len |-> k]
Truthy(v) == v.t = "object" \/ (v.t = "string" /\ v.len > 0)

\* a || b on payload values
OrVal(a, b) == IF Truthy(a) THEN a ELSE b
\* a || b on strings ("" stands for an absent or empty string, both falsy)
OrStr(a, b) == IF a # "" THEN a ELSE b
\* a || b on session identifiers (<<>> is absent or empty)
OrSid(a, b) == IF a # <<>> THEN a ELSE b

Unknown == <<"u", "n", "k", "n", "o", "w", "n">>
Default == <<"d", "e", "f", "a", "u", "l", "t">>
S1 == <<"s", "1">>
\* an identifier that climbs out of the directory, and one longer than
\* SESSION_ID_MAX with separators up to its end
Traversal == <<".", ".", "/", "e", "t", "c">>
LongId == [i \in 1..(SESSION_ID_MAX + 6) |-> IF i % 2 = 0 THEN "/" ELSE "x"]
\* an identifier of safe characters only, which differs from Traversal in
\* the characters that are not
Underscored == <<"_", "_", "_", "e", "t", "c">>
SessionIds == {Unknown, Default, S1, Traversal, LongId, Underscored}

SafeChars ==
  {"a","b","c","d","e","f","g","h","i","j","k","l","m","n","o","p","q","r",
   "s","t","u","v","w","x","y","z","A","B","C","D","E","F","G","H","I","J",
   "K","L","M","N","O","P","Q","R","S","T","U","V","W","X","Y","Z","0","1",
   "2","3","4","5","6","7","8","9","_","-"}

\* a faulty variant: the identifier is used as it is
sanitizeSessionId_Raw(sessionId) == sessionId

\* String(sessionId).replace(/[^a-zA-Z0-9_-]/g, '_').slice(0, 64)
sanitizeSessionId(sessionId) ==
  LET replaced == [i \in 1..Len(sessionId) |->
                     IF sessionId[i] \in SafeChars THEN sessionId[i] ELSE "_"]
  IN SubSeq(replaced, 1, Min(Len(replaced), SESSION_ID_MAX))

CounterNames == {sanitizeSessionId(s) : s \in SessionIds}

\* the log files: the default observations.jsonl and a configured store_path
\* in the same directory
DefaultLog == "homunculus/observations.jsonl"
CustomLog == "homunculus/events.jsonl"
LogPaths == {DefaultLog, CustomLog}

NoFile == [exists |-> FALSE, lines |-> <<>>]
NoCounter == [exists |-> FALSE, nan |-> FALSE, n |-> 0]
\* a counter file whose text parseInt does not read as a number (an empty
\* file is one)
Unparsable == [exists |-> TRUE, nan |-> TRUE, n |-> 0]
NoPending == [exists |-> FALSE, timestamp |-> 0, count |-> 0]

\* a whitespace-only line (written by hand, never by the recorder)
BlankLine == [blank |-> TRUE]
IsBlank(line) == "blank" \in DOMAIN line

\* the contents of the shared file system, passed through the library
World == [files |-> files, archive |-> archive, counters |-> counters,
          pending |-> pending]

\* the result of a call: the file system after it, the value returned, and
\* whether it ended by throwing
Ret(w, r) == [w |-> w, ret |-> r, threw |-> FALSE]
Throw(w) == [w |-> w, ret |-> FALSE, threw |-> TRUE]

-----------------------------------------------------------------------------
(* I/O failures a run may meet *)

\* the operations that can fail in a run of each hook; a run meets no
\* failure or one
FaultPoints(op) ==
  CASE op = "record" ->
         {"module", "stdin", "mkdir", "read", "rename", "append", "write"}
    [] op = "maybeAnalyze" ->
         {"module", "mkdir", "read", "rename", "write", "unlink"}
    [] op = "evaluateSession" -> {"module", "mkdir"}
FaultSets(op) == {{}} \cup {{f} : f \in FaultPoints(op)}

-----------------------------------------------------------------------------
(* scripts/lib/utils.js: the helpers observer-utils builds on *)

\* ensureDir(dir): creates the directory when missing and returns; a failing
\* mkdir throws
ensureDirThrows(faults) == "mkdir" \in faults

\* readFile(path): the content, or null when the file is missing or unreadable
readFile(w, file, faults) ==
  IF w.files[file].exists /\ "read" \notin faults
  THEN [null |-> FALSE, lines |-> w.files[file].lines]
  ELSE [null |-> TRUE, lines |-> <<>>]

\* appendFile(path, content): creates the file when missing and adds the
\* content at its end; a failing write throws
appendFile(w, file, line, faults) ==
  IF "append" \in faults THEN Throw(w)
  ELSE Ret([w EXCEPT !.files[file] =
              [exists |-> TRUE, lines |-> Append(w.files[file].lines, line)]],
           TRUE)

\* writeFile(path, content): replaces the file's content; a failing write throws
writePending(w, t, count, faults) ==
  IF "write" \in faults THEN Throw(w)
  ELSE Ret([w EXCEPT !.pending =
              [exists |-> TRUE, timestamp |-> t, count |-> count]], TRUE)

\* readStdinJson(): the parsed payload; {} for empty or unparseable input
EmptyObject ==
  [kind |-> "object", keys |-> 0, hook_type |-> "", tool_name |-> "",
   tool |-> "", tool_input |-> NoVal, input |-> NoVal, tool_output |-> NoVal,
   output |-> NoVal, session_id |-> <<>>]
readStdinJson(stdin) ==
  IF stdin.kind \in {"empty", "unparseable"} THEN EmptyObject ELSE stdin

-----------------------------------------------------------------------------
(* scripts/lib/observer-utils.js *)

\* a configured number of megabytes is the rational num/den; num = 0 is an
\* absent (or zero, equally falsy) setting
Mb(num, den) == [num |-> num, den |-> den]

NoConfig == [null |-> TRUE, min_observations_to_analyze |-> 0,
             max_file_size_mb |-> Mb(0, 1), store_path |-> ""]

\* loadConfig(configPath): null for a missing, unreadable, empty or invalid
\* file.  The store_path values of the model are absolute, so resolveTildePath
\* leaves them as they are.
\* a faulty variant: the fields are taken from a file that does not parse
loadConfig_Unparsed(cf, faults) ==
  IF cf.state = "missing" \/ "read" \in faults THEN NoConfig
  ELSE [null |-> FALSE,
        min_observations_to_analyze |-> cf.min_observations_to_analyze,
        max_file_size_mb |-> cf.max_file_size_mb,
        store_path |-> cf.store_path]

loadConfig(cf, faults) ==
  IF cf.state # "valid" \/ "read" \in faults THEN NoConfig
  ELSE [null |-> FALSE,
        min_observations_to_analyze |-> cf.min_observations_to_analyze,
        max_file_size_mb |-> cf.max_file_size_mb,
        store_path |-> cf.store_path]

\* getHomunculusDir() calls ensureDir on the state directory
getHomunculusDirThrows(faults) == ensureDirThrows(faults)

getObservationsFile == DefaultLog

\* a faulty variant: the marker is not looked at
isDisabled_Never(flag) == FALSE

\* isDisabled(): the marker file exists
isDisabled(flag) == flag

\* length in bytes of JSON.stringify(obs) + '\n' for an observation; the
\* payload strings of the model hold no character that JSON escapes
LineBytes(line) ==
  IF IsBlank(line) THEN 1
  ELSE 14 + ISO_TIMESTAMP_CHARS + 11 + Len(line.event) + 10 + Len(line.tool)
       + 13 + Len(line.session) + 1
       + (IF "input" \in DOMAIN line THEN 10 + line.input + 1 ELSE 0)
       + (IF "output" \in DOMAIN line THEN 11 + line.output + 1 ELSE 0)
       + 1 + 1

RECURSIVE SumBytes(_)
SumBytes(lines) ==
  IF lines = <<>> THEN 0
  ELSE IF Len(lines) = 1 THEN LineBytes(lines[1])
  ELSE LET half == Len(lines) \div 2
       IN SumBytes(SubSeq(lines, 1, half))
          + SumBytes(SubSeq(lines, half + 1, Len(lines)))

\* getFileSizeBytes(filePath): 0 when the file does not exist
getFileSizeBytes(w, file) ==
  IF w.files[file].exists THEN SumBytes(w.files[file].lines) ELSE 0

\* a faulty variant: a file of exactly maxMB is not rotated
SizeBelow_Inclusive(sizeBytes, maxMB) ==
  sizeBytes * maxMB.den <= maxMB.num * BYTES_PER_MB

\* sizeBytes / (1024 * 1024) < maxMB, for maxMB = num/den
SizeBelow(sizeBytes, maxMB) == sizeBytes * maxMB.den < maxMB.num * BYTES_PER_MB

\* the archive name: the prefix and the ISO timestamp cut to the second (the
\* clock of the model counts seconds, so two calls with no Tick between them
\* are two calls within one second)
ArchiveName(prefix, t) == <<prefix, t>>

\* path.join(path.dirname(file), 'observations.archive'): the directory the
\* variable archive stands for (every log of the model is in homunculus/)
archiveDir(file) == "homunculus/observations.archive"

\* fs.renameSync(file, archiveDir/name): replaces an entry of that name
renameIntoArchive(w, file, name, faults) ==
  IF ~w.files[file].exists \/ "rename" \in faults THEN Throw(w)
  ELSE Ret([w EXCEPT
              !.files[file] = NoFile,
              !.archive.entries =
                 [n \in DOMAIN w.archive.entries \cup {name} |->
                    IF n = name THEN w.files[file].lines
                    ELSE w.archive.entries[n]]],
           TRUE)

\* a faulty variant: the log is emptied in place instead of being renamed
rotateObservationsIfNeeded_Truncate(w, file, maxMB, t, faults) ==
  IF SizeBelow(getFileSizeBytes(w, file), maxMB) THEN Ret(w, FALSE)
  ELSE Ret([w EXCEPT !.files[file] = [exists |-> TRUE, lines |-> <<>>]], TRUE)

rotateObservationsIfNeeded(w, file, maxMB, t, faults) ==
  IF SizeBelow(getFileSizeBytes(w, file), maxMB) THEN Ret(w, FALSE)
  ELSE IF ensureDirThrows(faults) THEN Throw(w)
  ELSE renameIntoArchive([w EXCEPT !.archive.exists = TRUE], file,
                         ArchiveName("observations", t), faults)

\* a faulty variant: the record replaces the file's content instead of being appended
appendObservation_Overwrite(w, file, obs, faults) ==
  appendFile([w EXCEPT !.files[file] = NoFile], file, obs, faults)

appendObservation(w, file, obs, faults) == appendFile(w, file, obs, faults)

\* a faulty variant: the count is taken from the counter of 'default'
countObservations_Counter(w, file, faults) ==
  IF w.counters[sanitizeSessionId(Default)].exists
  THEN w.counters[sanitizeSessionId(Default)].n ELSE 0

\* a faulty variant: blank lines are counted too
countObservations_AllLines(w, file, faults) ==
  LET content == readFile(w, file, faults)
  IN IF content.null THEN 0 ELSE Len(content.lines)

\* a faulty variant: every piece of the split is counted
countObservations_Pieces(w, file, faults) ==
  LET content == readFile(w, file, faults)
  IN IF content.null \/ content.lines = <<>> THEN 0
     ELSE Len(Append(content.lines, BlankLine))

\* countObservations(file): 0 for a null or empty content; otherwise the
\* pieces of content.split('\n') (the lines, and the empty piece after the
\* last newline) that are not blank
countObservations(w, file, faults) ==
  LET content == readFile(w, file, faults)
      pieces == Append(content.lines, BlankLine)
      nonBlank == {i \in 1..Len(pieces) : ~IsBlank(pieces[i])}
  IN IF content.null \/ content.lines = <<>> THEN 0 ELSE Cardinality(nonBlank)

archiveObservations(w, file, t, faults) ==
  IF ~w.files[file].exists THEN Ret(w, FALSE)
  ELSE IF ensureDirThrows(faults) THEN Throw(w)
  ELSE renameIntoArchive([w EXCEPT !.archive.exists = TRUE], file,
                         ArchiveName("processed", t), faults)

\* parseInt(content.trim(), 10) of a counter file that was read
parseCounter(c) == IF c.nan THEN NaN ELSE Num(c.n)

\* a faulty variant: the count read is written back as it is
PlusOne_Same(x) == x

\* n + 1 on JS numbers
PlusOne(x) == IF x.nan THEN NaN ELSE Num(x.n + 1)

\* String(count) written to the counter file
CounterText(x) == [exists |-> TRUE, nan |-> x.nan, n |-> x.n]

incrementCounter(w, sessionId, faults) ==
  LET counterFile == sanitizeSessionId(sessionId)
      readable == w.counters[counterFile].exists /\ "read" \notin faults
      count == IF readable THEN PlusOne(parseCounter(w.counters[counterFile]))
               ELSE Num(1)
  IN IF "write" \in faults THEN Throw(w)
     ELSE Ret([w EXCEPT !.counters[counterFile] = CounterText(count)], count)

\* a faulty variant: the unlink of an absent counter file is not caught
resetCounter_NoCatch(w, sessionId, faults) ==
  LET counterFile == sanitizeSessionId(sessionId)
  IN IF ~w.counters[counterFile].exists \/ "unlink" \in faults THEN Throw(w)
     ELSE Ret([w EXCEPT !.counters[counterFile] = NoCounter], FALSE)

resetCounter(w, sessionId, faults) ==
  LET counterFile == sanitizeSessionId(sessionId)
  IN IF ~w.counters[counterFile].exists \/ "unlink" \in faults THEN Ret(w, FALSE)
     ELSE Ret([w EXCEPT !.counters[counterFile] = NoCounter], FALSE)

getCounter(w, sessionId) ==
  LET counterFile == sanitizeSessionId(sessionId)
  IN IF w.counters[counterFile].exists THEN parseCounter(w.counters[counterFile])
     ELSE Num(0)

-----------------------------------------------------------------------------
(* skills/continuous-learning-v2/hooks/observe.js *)

\* a faulty variant: every tag counts as a pre-execution tag
IncludesPre_Any(hookType) == hookType # "unknown"

\* hookType.includes('Pre'), hookType.includes('Post') on the tags of the model
IncludesPre(hookType) == hookType \in {"PreToolUse", "PrePostToolUse"}
IncludesPost(hookType) == hookType \in {"PostToolUse", "PrePostToolUse"}

\* a faulty variant: the serialisation is stored whole
Truncate_Off(len) == len

\* value.slice(0, 5000) of a serialisation of the given length
Truncate(len) == Min(len, TRUNCATE_CHARS)

\* the fields observe.js derives from the payload and the environment
ParseHook(hookData, envSid) ==
  LET hookType == OrStr(hookData.hook_type, "unknown")
      toolInput == OrVal(OrVal(hookData.tool_input, hookData.input), ObjVal(2))
      toolOutput == OrVal(OrVal(hookData.tool_output, hookData.output), StrVal(0))
  IN [hookType |-> hookType,
      toolName |-> OrStr(OrStr(hookData.tool_name, hookData.tool), "unknown"),
      sessionId |-> OrSid(OrSid(hookData.session_id, envSid), Unknown),
      \* -1 is null; a string is given by its length
      inputStr |-> IF IncludesPre(hookType) \/ hookType = "unknown"
                   THEN Truncate(toolInput.len) ELSE -1,
      outputStr |-> IF IncludesPost(hookType)
                    THEN Truncate(toolOutput.len) ELSE -1,
      event |-> IF IncludesPre(hookType) THEN "tool_start" ELSE "tool_complete"]

\* the observation object: input and output are set only when truthy
Observation(h, t) ==
  LET base == [timestamp |-> t, event |-> h.event, tool |-> h.toolName,
               session |-> h.sessionId]
      withInput == IF h.inputStr > 0 THEN base @@ [input |-> h.inputStr] ELSE base
  IN IF h.outputStr > 0 THEN withInput @@ [output |-> h.outputStr] ELSE withInput

\* how a run of a hook process ended: the file system it left, its exit
\* status, the branch it took, the counter file an increment completed on
\* (<<>> when none did) and the number of analyzer invocations
Out(w, code, branch) ==
  [w |-> w, exit |-> code, branch |-> branch, inc |-> <<>>, analyzer |-> 0]

\* max_file_size_mb || 10
MaxFileSizeMB(config) ==
  IF config.max_file_size_mb.num # 0 THEN config.max_file_size_mb
  ELSE Mb(MAX_FILE_SIZE_MB_DEFAULT, 1)

\* store_path || getObservationsFile()
ObservationsFile(config) == OrStr(config.store_path, getObservationsFile)

\* a faulty variant: the emptiness check is lost
IsEmptyHookData_Never(hookData) == FALSE

\* !hookData || Object.keys(hookData).length === 0
IsEmptyHookData(hookData) == hookData.keys = 0

\* one run of observe.js: every exception of main() ends in main().catch,
\* which exits 0
observeMain(w, flag, cf, stdin, envSid, t, faults) ==
  IF "module" \in faults THEN Out(w, 0, "no_utils")
  ELSE IF getHomunculusDirThrows(faults) THEN Out(w, 0, "error")
  ELSE IF isDisabled(flag) THEN Out(w, 0, "disabled")
  ELSE IF "stdin" \in faults THEN Out(w, 0, "stdin_error")
  ELSE
    LET hookData == readStdinJson(stdin) IN
    IF IsEmptyHookData(hookData) THEN Out(w, 0, "no_data")
    ELSE
      LET config == loadConfig(cf, faults)
          observationsFile == ObservationsFile(config)
          h == ParseHook(hookData, envSid)
          rotated == rotateObservationsIfNeeded(w, observationsFile,
                                                MaxFileSizeMB(config), t, faults)
          appended == appendObservation(rotated.w, observationsFile,
                                        Observation(h, t), faults)
          counted == incrementCounter(appended.w, h.sessionId, faults)
      IN IF rotated.threw THEN Out(rotated.w, 0, "error")
         ELSE IF appended.threw THEN Out(appended.w, 0, "error")
         ELSE IF counted.threw THEN Out(counted.w, 0, "error")
         ELSE [Out(counted.w, 0, "recorded") EXCEPT
                 !.inc = sanitizeSessionId(h.sessionId)]

-----------------------------------------------------------------------------
(* scripts/hooks/analyze-observations.js *)

\* min_observations_to_analyze || MIN_OBSERVATIONS_DEFAULT
MinObservations(config) ==
  IF config.min_observations_to_analyze # 0
  THEN config.min_observations_to_analyze ELSE MIN_OBSERVATIONS_DEFAULT

\* a faulty variant: the log is archived in the pending branch too
markPending_Archives(w, t, obsCount, faults) ==
  writePending(archiveObservations(w, DefaultLog, t, faults).w, t, obsCount,
               faults)

\* the branch taken when the claude CLI is not in PATH: only the pending
\* marker is written
markPending(w, t, obsCount, faults) == writePending(w, t, obsCount, faults)

\* a faulty variant: a failed analysis leaves the log and the counter alone
afterAnalysis_OnlyOnSuccess(w, observationsFile, sessionId, status, t, faults) ==
  IF status # 0 THEN Ret(w, FALSE)
  ELSE LET archived == archiveObservations(w, observationsFile, t, faults)
       IN IF archived.threw THEN archived
          ELSE resetCounter(archived.w, sessionId, faults)

\* what follows spawnSync: result.status is only logged, then the log is
\* archived and the counter of the session is reset
afterAnalysis(w, observationsFile, sessionId, status, t, faults) ==
  LET archived == archiveObservations(w, observationsFile, t, faults)
  IN IF archived.threw THEN archived
     ELSE resetCounter(archived.w, sessionId, faults)

\* one run of analyze-observations.js.  The require calls at the top of the
\* script are outside any try: a module that cannot be loaded is an uncaught
\* exception, and node exits 1.  Exceptions of main() end in main().catch.
\* status is the analyzer's exit status (-1: killed by the timeout).
analyzeMain(w, flag, cf, envSid, claudeExists, status, t, faults) ==
  IF "module" \in faults THEN Out(w, 1, "crash")
  ELSE IF getHomunculusDirThrows(faults) THEN Out(w, 0, "error")
  ELSE IF isDisabled(flag) THEN Out(w, 0, "disabled")
  ELSE
    LET config == loadConfig(cf, faults)
        minObservations == MinObservations(config)
        observationsFile == ObservationsFile(config)
        obsCount == countObservations(w, observationsFile, faults)
    IN
    IF obsCount < minObservations THEN Out(w, 0, "skip")
    ELSE IF claudeExists THEN
      LET sessionId == OrSid(envSid, Default)
          done == afterAnalysis(w, observationsFile, sessionId, status, t, faults)
      IN IF done.threw
         THEN [Out(done.w, 0, "error") EXCEPT !.analyzer = 1]
         ELSE [Out(done.w, 0, "analyzed") EXCEPT !.analyzer = 1]
    ELSE
      LET written == markPending(w, t, obsCount, faults)
      IN IF written.threw THEN Out(written.w, 0, "error")
         ELSE Out(written.w, 0, "pending")

-----------------------------------------------------------------------------
(* skills/continuous-learning/evaluate-session.js *)

\* one run of the session evaluator: minLen is config.min_session_length (0
\* when unset), hasTranscript says that CLAUDE_TRANSCRIPT_PATH names an
\* existing file, messageCount is the number of user messages in it
evaluateMain(w, minLen, hasTranscript, messageCount, faults) ==
  LET minSessionLength == IF minLen # 0 THEN minLen
                          ELSE MIN_SESSION_LENGTH_DEFAULT
  IN IF "module" \in faults THEN Out(w, 0, "no_utils")
     ELSE IF ensureDirThrows(faults) THEN Out(w, 0, "error")
     ELSE IF ~hasTranscript THEN Out(w, 0, "no_transcript")
     ELSE IF messageCount < minSessionLength THEN Out(w, 0, "too_short")
     ELSE Out(w, 0, "evaluate")

-----------------------------------------------------------------------------
(* scripts/lib/binary-resolver.js *)

\* the tools the hooks resolve: findOrInstall('typescript', 'tsc') and
\* findOrInstall('prettier', 'prettier')
Tools == {<<"typescript", "tsc">>, <<"prettier", "prettier">>}
Packages == {tool[1] : tool \in Tools}
Binaries == {tool[2] : tool \in Tools}

\* the binaries a package links into node_modules/.bin when it is installed
PackageBins(packageName) == {tool[2] : tool \in {x \in Tools : x[1] = packageName}}

\* a path (the place and the binary's name), or null
Null == <<>>
NoHooksPackages == [exists |-> FALSE, bins |-> {}]

\* a faulty variant: the search path is not looked at
findInPath_Never(onPath, name) == Null

\* findInPath(name): the first line of `which name`, null when it finds nothing
findInPath(onPath, name) == IF name \in onPath THEN <<"path", name>> ELSE Null

\* findInHooksPackages(name): hooks-packages/node_modules/.bin/name if it exists
findInHooksPackages(hp, name) ==
  IF hp.exists /\ name \in hp.bins THEN <<"hooks", name>> ELSE Null

\* installToHooksPackages(packageName): mkdirSync fails -> false, silently;
\* the package manager fails or times out -> the failure and the
\* manual-install hint on stderr, false; otherwise the package's binaries are
\* in .bin, true.  npm counts invocations of the package manager, hint the
\* manual-install hints written.
installToHooksPackages(hp, packageName, outcome) ==
  IF outcome = "mkdir_fails"
  THEN [hp |-> hp, ok |-> FALSE, npm |-> 0, hint |-> 0]
  ELSE IF outcome = "npm_fails"
  THEN [hp |-> [hp EXCEPT !.exists = TRUE], ok |-> FALSE, npm |-> 1, hint |-> 1]
  ELSE [hp |-> [exists |-> TRUE, bins |-> hp.bins \cup PackageBins(packageName)],
        ok |-> TRUE, npm |-> 1, hint |-> 0]

InstallOutcomes == {"ok", "mkdir_fails", "npm_fails"}

\* findOrInstall(packageName, binaryName) run from its call to its return:
\* the search path, then the isolated directory, then the install and the
\* lookup after it; null when the install failed
findOrInstall(onPath, hp, packageName, binaryName, outcome) ==
  LET inPath == findInPath(onPath, binaryName)
      inHooks == findInHooksPackages(hp, binaryName)
      i == installToHooksPackages(hp, packageName, outcome)
  IN IF inPath # Null THEN [ret |-> inPath, hp |-> hp, installed |-> 0]
     ELSE IF inHooks # Null THEN [ret |-> inHooks, hp |-> hp, installed |-> 0]
     ELSE IF i.ok
     THEN [ret |-> findInHooksPackages(i.hp, binaryName), hp |-> i.hp,
           installed |-> 1]
     ELSE [ret |-> Null, hp |-> i.hp, installed |-> 0]

-----------------------------------------------------------------------------
(* scripts/hooks/post-edit-format.js and scripts/hooks/post-edit-typecheck.js *)

\* const MAX_STDIN = 1024 * 1024, in UTF-16 code units of the decoded text
MAX_STDIN == 1048576

\* Text is a sequence of pieces, [chunk |-> i, len |-> n] standing for the
\* first n code units of the i-th chunk that arrived on stdin; a piece of no
\* units is the empty string
Piece(i, n) == IF n = 0 THEN <<>> ELSE <<[chunk |-> i, len |-> n]>>

RECURSIVE Units(_)
Units(text) == IF text = <<>> THEN 0 ELSE Head(text).len + Units(Tail(text))

\* a faulty variant: the chunk is appended whole
OnData_Whole(data, i, chunkLen) == data \o Piece(i, chunkLen)

\* stdin.on('data'): if (data.length < MAX_STDIN)
\*   data += chunk.substring(0, MAX_STDIN - data.length)
OnData(data, i, chunkLen) ==
  IF Units(data) < MAX_STDIN
  THEN data \o Piece(i, Min(chunkLen, MAX_STDIN - Units(data)))
  ELSE data

\* data when 'end' fires, the chunks having arrived in order
RECURSIVE ReadStdin(_, _)
ReadStdin(stream, n) ==
  IF n = 0 THEN <<>> ELSE OnData(ReadStdin(stream, n - 1), n, stream[n])

\* the first n code units of what arrived on stdin from chunk i on
RECURSIVE FirstUnits(_, _, _)
FirstUnits(stream, i, n) ==
  IF i > Len(stream) \/ n = 0 THEN <<>>
  ELSE Piece(i, Min(stream[i], n))
         \o FirstUnits(stream, i + 1, n - Min(stream[i], n))

\* What JSON.parse(data) and input.tool_input?.file_path give: text that is
\* not JSON, or that the cap cut short, throws; JSON that names no file
\* path; a path with one of the extensions; a path with another
EditKinds == {"invalid", "noPath", "ts", "tsx", "js", "jsx", "py"}
ParseEdit(edit, data) ==
  IF Units(data) < Units(FirstUnits(edit.stream, 1, Units(data) + 1))
       \/ data = <<>>
  THEN "invalid" ELSE edit.kind

\* the environment of one run: the edited file exists, a tsconfig.json is
\* found walking up, CLAUDE_PLUGIN_ROOT is set, how the install ends if one
\* is made, and how the tool ends: exit 0, a non-zero exit (tsc with some
\* lines that name the file) or killed by the timeout
ToolOutcomes == {"ok", "fails", "timeout"}
EditEnv(fileExists, tsconfig, pluginRoot, install, tool, relevantLines) ==
  [fileExists |-> fileExists, tsconfig |-> tsconfig,
   pluginRoot |-> pluginRoot, install |-> install, tool |-> tool,
   relevantLines |-> relevantLines]
EditEnvs ==
  {EditEnv(TRUE, TRUE, TRUE, i, "ok", 0) : i \in InstallOutcomes}
    \cup {EditEnv(TRUE, TRUE, TRUE, "ok", "fails", n) : n \in {0, 3, 12}}
    \cup {EditEnv(TRUE, TRUE, TRUE, i, "timeout", 0) : i \in {"ok", "npm_fails"}}
    \cup {EditEnv(FALSE, TRUE, TRUE, "ok", t, 0) : t \in {"ok", "fails"}}
    \cup {EditEnv(TRUE, FALSE, TRUE, "ok", "ok", 0),
          EditEnv(TRUE, TRUE, FALSE, "ok", "ok", 0)}

\* what a run of a hook did: everything it wrote to stdout, in order, its
\* exit status, the lines it wrote to stderr, the branch it took, the tool
\* runs it made, and the isolated directory it leaves
EditRun(stdout, exit, stderr, branch, tool, hp, installed) ==
  [stdout |-> stdout, exit |-> exit, stderr |-> stderr, branch |-> branch,
   tool |-> tool, hp |-> hp, installed |-> installed]

\* post-edit-format.js, stdin.on('end')
postEditFormat(onPath, hp, edit, env) ==
  LET data == ReadStdin(edit.stream, Len(edit.stream))
      kind == ParseEdit(edit, data)
      f == findOrInstall(onPath, hp, "prettier", "prettier", env.install)
  IN IF kind = "invalid" THEN EditRun(data, 0, 0, "invalid", 0, hp, 0)
     ELSE IF kind \notin {"ts", "tsx", "js", "jsx"}
     THEN EditRun(data, 0, 0, "skip", 0, hp, 0)
     ELSE IF ~env.pluginRoot THEN EditRun(data, 0, 0, "noRoot", 0, hp, 0)
     ELSE IF f.ret = Null
     THEN EditRun(data, 0, 0, "noBinary", 0, f.hp, f.installed)
     ELSE \* prettier --write fails on a missing file as on any other error
          EditRun(data, 0, 0,
                  IF env.fileExists /\ env.tool = "ok" THEN "formatted"
                  ELSE IF env.tool = "timeout" THEN "timeout" ELSE "failed",
                  1, f.hp, f.installed)

\* post-edit-typecheck.js, stdin.on('end'): a missing file writes the data
\* and exits at once; a failing tsc has its lines that name the file, ten
\* at most, written to stderr under a heading
postEditTypecheck(onPath, hp, edit, env) ==
  LET data == ReadStdin(edit.stream, Len(edit.stream))
      kind == ParseEdit(edit, data)
      f == findOrInstall(onPath, hp, "typescript", "tsc", env.install)
      relevant == IF env.tool = "fails" THEN env.relevantLines ELSE 0
  IN IF kind = "invalid" THEN EditRun(data, 0, 0, "invalid", 0, hp, 0)
     ELSE IF kind \notin {"ts", "tsx"}
     THEN EditRun(data, 0, 0, "skip", 0, hp, 0)
     ELSE IF ~env.fileExists THEN EditRun(data, 0, 0, "missing", 0, hp, 0)
     ELSE IF ~env.tsconfig THEN EditRun(data, 0, 0, "noTsconfig", 0, hp, 0)
     ELSE IF ~env.pluginRoot THEN EditRun(data, 0, 0, "noRoot", 0, hp, 0)
     ELSE IF f.ret = Null
     THEN EditRun(data, 0, 0, "noBinary", 0, f.hp, f.installed)
     ELSE EditRun(data, 0,
                  IF relevant > 0 THEN 1 + Min(relevant, 10) ELSE 0,
                  IF env.tool = "ok" THEN "checked"
                  ELSE IF env.tool = "timeout" THEN "timeout" ELSE "failed",
                  1, f.hp, f.installed)

\* What arrives on stdin, in chunks: nothing, text that is not JSON, edits
\* of files of each kind in one chunk and in two, and payloads at and
\* beyond the cap
Edit(stream, kind) == [stream |-> stream, kind |-> kind]
Edits ==
  {Edit(<<>>, "invalid"), Edit(<<7>>, "invalid"), Edit(<<0, 7>>, "invalid")}
    \cup {Edit(<<40>>, k) : k \in EditKinds}
    \cup {Edit(<<40, 24>>, k) : k \in {"ts", "js"}}
    \cup {Edit(<<MAX_STDIN>>, "ts"), Edit(<<MAX_STDIN - 1, 1>>, "js"),
          Edit(<<MAX_STDIN - 1, 2>>, "ts"), Edit(<<MAX_STDIN + 1>>, "js"),
          Edit(<<MAX_STDIN, 5>>, "invalid"),
          Edit(<<65536, MAX_STDIN, 9>>, "ts")}

-----------------------------------------------------------------------------
(* Inputs *)

Stdin(kind, keys, hookType, toolName, tool, toolInput, toolOutput, sid) ==
  [kind |-> kind, keys |-> keys, hook_type |-> hookType, tool_name |-> toolName,
   tool |-> tool, tool_input |-> toolInput, input |-> NoVal,
   tool_output |-> toolOutput, output |-> NoVal, session_id |-> sid]

\* no bytes at all, text that is not JSON, and the empty object {}
EmptyStdin == Stdin("empty", 0, "", "", "", NoVal, NoVal, <<>>)
GarbageStdin == Stdin("unparseable", 0, "", "", "", NoVal, NoVal, <<>>)
EmptyJson == Stdin("object", 0, "", "", "", NoVal, NoVal, <<>>)
\* a PreToolUse event whose record is exactly 1 KiB long
PreEvent == Stdin("object", 4, "PreToolUse", "Read", "", StrVal(922), NoVal, S1)
\* a PostToolUse event that names no session
PostEvent == Stdin("object", 3, "PostToolUse", "Write", "", NoVal, ObjVal(16), <<>>)
\* an event with neither a type tag nor a session
BareEvent == Stdin("object", 1, "", "", "Bash", NoVal, NoVal, <<>>)

Stdins == {EmptyStdin, GarbageStdin, EmptyJson, PreEvent, PostEvent, BareEvent}

IsValidPayload(stdin) == stdin.kind = "object" /\ stdin.keys > 0

\* CLAUDE_SESSION_ID: unset, or a session identifier
EnvSessionIds == {<<>>, S1}

ConfigFile(state, minObs, maxMB, storePath) ==
  [state |-> state, min_observations_to_analyze |-> minObs,
   max_file_size_mb |-> maxMB, store_path |-> storePath]

\* no config.json, and one with a threshold of 1 observation and a size limit
\* of 1 KiB
NoConfigFile == ConfigFile("missing", 0, Mb(0, 1), "")
ConfigFiles == {NoConfigFile, ConfigFile("valid", 1, Mb(1, 1024), "")}

\* size limits a caller passes to rotateObservationsIfNeeded
\* (13/131072 MB is 104 bytes, the length of one SeedLine record)
SizeLimits == {Mb(MAX_FILE_SIZE_MB_DEFAULT, 1), Mb(13, 131072)}

SeedLine == [timestamp |-> 0, event |-> "tool_start", tool |-> "Read",
             session |-> S1, input |-> 2]

\* the log a behaviour starts with: none, an empty file, a file holding one
\* blank line, or a log of MIN_OBSERVATIONS_DEFAULT records of earlier sessions
InitLogs ==
  {NoFile,
   [exists |-> TRUE, lines |-> <<>>],
   [exists |-> TRUE, lines |-> <<BlankLine>>],
   [exists |-> TRUE, lines |-> [i \in 1..MIN_OBSERVATIONS_DEFAULT |-> SeedLine]]}

\* event-type tags: the two the host sends, one that matches both patterns,
\* none, and one that matches neither
HookTypes == {"PreToolUse", "PostToolUse", "PrePostToolUse", "", "Notification"}

\* tool inputs and outputs around the truncation length: absent, an object
\* and a scalar
ToolInputs == {NoVal, ObjVal(TRUNCATE_CHARS - 1), StrVal(TRUNCATE_CHARS + 1)}
ToolOutputs == {NoVal, StrVal(TRUNCATE_CHARS), ObjVal(TRUNCATE_CHARS + 1000)}

Payloads ==
  {Stdin("object", 4, hookType, "Edit", "", toolInput, toolOutput, S1) :
     hookType \in HookTypes, toolInput \in ToolInputs, toolOutput \in ToolOutputs}

\* a record of exactly 4 KiB, and the number of them that makes a log of
\* exactly MAX_FILE_SIZE_MB_DEFAULT megabytes
BigLine == [timestamp |-> 0, event |-> "tool_start", tool |-> "Read",
            session |-> S1, input |-> 3994]
BigLogLines == (MAX_FILE_SIZE_MB_DEFAULT * BYTES_PER_MB) \div LineBytes(BigLine)

\* logs one record short of the default threshold and at it, and logs one
\* record short of the default size limit and at it
BoundaryLogs ==
  {[exists |-> TRUE, lines |-> [i \in 1..n |-> SeedLine]] :
     n \in {MIN_OBSERVATIONS_DEFAULT - 1, MIN_OBSERVATIONS_DEFAULT}}
  \cup {[exists |-> TRUE, lines |-> [i \in 1..n |-> BigLine]] :
          n \in {BigLogLines - 1, BigLogLines}}

\* no config.json, one that is not valid JSON, and a valid one that sets a
\* threshold of 1 observation, a size limit of 1 MB and its own log path
ConfigCases ==
  {NoConfigFile,
   ConfigFile("invalid", 1, Mb(1, 1), CustomLog),
   ConfigFile("valid", 1, Mb(1, 1), CustomLog)}

\* exit statuses of the analyzer: success, failure, killed by the timeout
AnalyzerStatuses == {0, 1, -1}

\* numbers of user messages in a transcript
MessageCounts == {0, MIN_SESSION_LENGTH_DEFAULT - 1, MIN_SESSION_LENGTH_DEFAULT}

-----------------------------------------------------------------------------
(* The state machine *)

\* the history record of a run: the operation, the kind of its input, the log
\* and the session it worked on, a further argument, the failures it met, its
\* exit status, whether it threw, what it returned, the branch it took and
\* the number of analyzer invocations (the further argument is, for record,
\* the lengths of the payload's serialised input and output and, for
\* maybeAnalyze, the value of the session's counter before the run)
Run(op, kind, file, sid, arg, faults, exit, threw, ret, branch, analyzer) ==
  [op |-> op, kind |-> kind, file |-> file, sid |-> sid, arg |-> arg,
   faults |-> faults, exit |-> exit, threw |-> threw, ret |-> ret,
   branch |-> branch, analyzer |-> analyzer]

NoRun == Run("none", "", "", <<>>, 0, {}, 0, FALSE, 0, "", 0)

\* the hook processes that resolve binaries, and the findOrInstall call of
\* one: where it stands, its arguments, what it returned, and how many
\* package manager invocations, manual-install hints and lookups in the
\* isolated directory it made
Procs == 1..MaxProcs
IdleResolver ==
  [pc |-> "idle", packageName |-> "", binaryName |-> "", ret |-> Null,
   outcome |-> "", npm |-> 0, hint |-> 0, lookups |-> 0]

InitResolver(onPath, hp) ==
  /\ pathBins = onPath
  /\ hooksPackages = hp
  /\ resolvers = [p \in Procs |-> IdleResolver]
  /\ installs = [pkg \in Packages |-> 0]

\* the observe.js processes whose steps interleave, and the run of one:
\* where it stands, the log and size limit it works with, the fields it
\* parsed from its payload, the observation it appended, the count it
\* computed from the counter file, whether its append, its increment and a
\* rotation of its own have completed, its exit status, and (while it is
\* between its size check and its append) how many appends of other
\* processes to its log have completed since its size check; sinceReset
\* tells the incrementCounter calls that started after the last completed
\* resetCounter of their session
Recorders == 1..MaxRecorders
IdleRecorder ==
  [pc |-> "idle", file |-> "", maxMB |-> Mb(0, 1),
   h |-> ParseHook(EmptyObject, <<>>), obs |-> BlankLine, count |-> Num(0),
   appended |-> FALSE, incremented |-> FALSE, rotated |-> FALSE, exit |-> -1,
   others |-> 0, sinceReset |-> FALSE]

\* the analyze-observations.js process: where it stands, the log it works
\* on, the lines the log held when the analyzer was invoked, the branch it
\* took, the analyzer's exit status and its own
IdleAnalysis ==
  [pc |-> "idle", file |-> "", seen |-> <<>>, branch |-> "", status |-> 0,
   exit |-> -1]

InitObserverWith(cf, l, cs) ==
  /\ recorders = [p \in Recorders |-> IdleRecorder]
  /\ analysis = IdleAnalysis
  /\ configFile = cf
  /\ files = [p \in LogPaths |->
                IF p = ObservationsFile(loadConfig(cf, {})) THEN l ELSE NoFile]
  /\ archive = [exists |-> FALSE, entries |-> <<>>]
  /\ counters = cs
  /\ pending = NoPending
  /\ disabled = FALSE
  /\ now = 0
  /\ incs = [c \in CounterNames |-> 0]
  /\ runs = 0
  /\ lastRun = NoRun

\* no counter file exists yet
InitObserver(cf, l) ==
  InitObserverWith(cf, l, [c \in CounterNames |-> NoCounter])

\* no binary is being resolved in the behaviours of the observer
InitWith(cf, l) ==
  InitObserver(cf, l) /\ InitResolver({}, NoHooksPackages) /\ sessionEnv = <<>>

Init == \E cf \in ConfigFiles, l \in InitLogs : InitWith(cf, l)

\* a run ends: the file system it leaves becomes the state
Commit(w, inc, run) ==
  /\ files' = w.files
  /\ archive' = w.archive
  /\ counters' = w.counters
  /\ pending' = w.pending
  /\ incs' = [c \in CounterNames |->
                IF ~w.counters[c].exists THEN 0
                ELSE IF c = inc THEN incs[c] + 1 ELSE incs[c]]
  /\ runs' = runs + 1
  /\ lastRun' = run
  /\ UNCHANGED <<disabled, configFile, now>>
  /\ UNCHANGED <<resolverVars, sessionVars>>

\* a JS number as an integer of the history record (-1 for NaN)
RetInt(x) == IF x.nan THEN -1 ELSE x.n
BoolInt(b) == IF b THEN 1 ELSE 0

Tick ==
  /\ now < MaxTime
  /\ now' = now + 1
  /\ UNCHANGED <<files, archive, counters, pending, disabled, configFile,
                 incs, runs, lastRun>>
  /\ UNCHANGED <<resolverVars, sessionVars>>

\* the user creates or removes the 'disabled' marker
ToggleDisabled ==
  /\ disabled' = ~disabled
  /\ runs' = runs + 1
  /\ lastRun' = [NoRun EXCEPT !.op = "toggle"]
  /\ UNCHANGED <<files, archive, counters, pending, configFile, now, incs>>
  /\ UNCHANGED <<resolverVars, sessionVars>>

StdinKind(stdin) ==
  IF IsValidPayload(stdin) THEN "valid"
  ELSE IF stdin.kind = "object" THEN "empty_object" ELSE stdin.kind

\* what a payload supplies: the lengths of the serialised tool input and
\* output before truncation, and its tag, tool and session fields
PayloadSizes(hookData) ==
  [input |-> OrVal(OrVal(hookData.tool_input, hookData.input), ObjVal(2)).len,
   output |-> OrVal(OrVal(hookData.tool_output, hookData.output), StrVal(0)).len,
   hook_type |-> hookData.hook_type, tool_name |-> hookData.tool_name,
   tool |-> hookData.tool, session_id |-> hookData.session_id]

\* the host runs observe.js for one tool-use event
Record(stdin, envSid, faults) ==
  LET out == observeMain(World, disabled, configFile, stdin, envSid, now, faults)
  IN Commit(out.w, out.inc,
            Run("record", StdinKind(stdin),
                ObservationsFile(loadConfig(configFile, faults)),
                ParseHook(readStdinJson(stdin), envSid).sessionId,
                PayloadSizes(readStdinJson(stdin)),
                faults, out.exit, FALSE, 0, out.branch, out.analyzer))

\* the host runs analyze-observations.js at session end
MaybeAnalyze(envSid, claudeExists, status, faults) ==
  LET out == analyzeMain(World, disabled, configFile, envSid, claudeExists,
                         status, now, faults)
  IN Commit(out.w, out.inc,
            Run("maybeAnalyze", IF claudeExists THEN "claude" ELSE "no_claude",
                ObservationsFile(loadConfig(configFile, faults)),
                OrSid(envSid, Default),
                RetInt(getCounter(World, OrSid(envSid, Default))), faults,
                out.exit, FALSE, IF out.analyzer > 0 THEN status ELSE 0,
                out.branch, out.analyzer))

\* the host runs the session evaluator when the assistant stops
EvaluateSession(minLen, hasTranscript, messageCount, faults) ==
  LET out == evaluateMain(World, minLen, hasTranscript, messageCount, faults)
  IN Commit(out.w, out.inc,
            Run("evaluateSession", "", "", <<>>, 0, faults, out.exit, FALSE, 0,
                out.branch, out.analyzer))

\* direct calls of the exported library functions
CallAppend(file, obs, faults) ==
  LET r == appendObservation(World, file, obs, faults)
  IN Commit(r.w, <<>>,
            Run("append", "", file, <<>>, 0, faults, 0, r.threw, 0, "", 0))

CallRotate(file, maxMB, faults) ==
  LET r == rotateObservationsIfNeeded(World, file, maxMB, now, faults)
  IN Commit(r.w, <<>>,
            Run("rotate", "", file, <<>>, maxMB, faults, 0, r.threw,
                BoolInt(r.ret), "", 0))

CallArchive(file, faults) ==
  LET r == archiveObservations(World, file, now, faults)
  IN Commit(r.w, <<>>,
            Run("archive", "", file, <<>>, 0, faults, 0, r.threw, 0, "", 0))

\* what a counter file holds: nothing (missing), text that parseInt does
\* not read as a number, or a number
CounterKind(c) ==
  IF ~c.exists THEN "missing" ELSE IF c.nan THEN "unparsable" ELSE "number"

CallIncrement(sid, faults) ==
  LET r == incrementCounter(World, sid, faults)
  IN Commit(r.w, IF r.threw THEN <<>> ELSE sanitizeSessionId(sid),
            Run("increment", CounterKind(counters[sanitizeSessionId(sid)]), "",
                sid, 0, faults, 0, r.threw,
                IF r.threw THEN 0 ELSE RetInt(r.ret), "", 0))

CallGet(sid) ==
  Commit(World, <<>>,
         Run("get", CounterKind(counters[sanitizeSessionId(sid)]), "", sid, 0,
             {}, 0, FALSE, RetInt(getCounter(World, sid)), "", 0))

CallReset(sid, faults) ==
  LET r == resetCounter(World, sid, faults)
  IN Commit(r.w, <<>>,
            Run("reset", "", "", sid, RetInt(getCounter(World, sid)), faults,
                0, r.threw, 0, "", 0))

\* Concurrent runs of observe.js.  The host starts one process per tool
\* event; each file-system call of a process is a step, and the steps of
\* different processes interleave.
raceFrame ==
  UNCHANGED <<pending, disabled, configFile, now, runs, lastRun, sessionEnv,
              analysis, resolverVars>>

\* main() up to the rotation: with the marker present, or with a payload
\* that is empty (no input, input that is not JSON, {}, or none before
\* readStdinJson gives up waiting) the process exits 0; otherwise the
\* payload is parsed and the configuration is loaded (the processes are
\* numbered in the order they start)
RecStart(p, stdin) ==
  LET config == loadConfig(configFile, {}) IN
  /\ recorders[p].pc = "idle"
  /\ \A q \in Recorders : q < p => recorders[q].pc # "idle"
  /\ recorders' = [recorders EXCEPT ![p] =
        IF isDisabled(disabled) \/ IsEmptyHookData(readStdinJson(stdin))
        THEN [@ EXCEPT !.pc = "done", !.exit = 0]
        ELSE [@ EXCEPT !.pc = "stat", !.file = ObservationsFile(config),
                       !.maxMB = MaxFileSizeMB(config),
                       !.h = ParseHook(readStdinJson(stdin), sessionEnv)]]
  /\ UNCHANGED <<files, archive, counters, incs>>
  /\ raceFrame

\* rotateObservationsIfNeeded: statSync and the size test
RecStat(p) ==
  /\ recorders[p].pc = "stat"
  /\ recorders' = [recorders EXCEPT ![p].pc =
        IF SizeBelow(getFileSizeBytes(World, recorders[p].file),
                     recorders[p].maxMB)
        THEN "append" ELSE "rename"]
  /\ UNCHANGED <<files, archive, counters, incs>>
  /\ raceFrame

\* rotateObservationsIfNeeded: ensureDir(archiveDir), which no other step
\* undoes, and renameSync; when the log is gone the exception reaches
\* main().catch and the process exits 0
RecRename(p) ==
  LET r == renameIntoArchive([World EXCEPT !.archive.exists = TRUE],
                             recorders[p].file,
                             ArchiveName("observations", now), {})
  IN /\ recorders[p].pc = "rename"
     /\ files' = r.w.files
     /\ archive' = r.w.archive
     /\ recorders' = [recorders EXCEPT ![p] =
           IF r.threw THEN [@ EXCEPT !.pc = "done", !.exit = 0, !.others = 0]
           ELSE [@ EXCEPT !.pc = "append", !.rotated = TRUE]]
     /\ UNCHANGED <<counters, incs>>
     /\ raceFrame

\* the observation is built and appended with one appendFileSync
RecAppend(p) ==
  LET obs == Observation(recorders[p].h, now)
      r == appendObservation(World, recorders[p].file, obs, {})
  IN /\ recorders[p].pc = "append"
     /\ files' = r.w.files
     /\ recorders' = [q \in Recorders |->
           IF q = p
           THEN [recorders[p] EXCEPT !.pc = "read", !.obs = obs,
                                     !.appended = TRUE, !.others = 0]
           ELSE IF /\ recorders[q].pc \in {"rename", "append"}
                   /\ recorders[q].file = recorders[p].file
                THEN [recorders[q] EXCEPT !.others = @ + 1]
                ELSE recorders[q]]
     /\ UNCHANGED <<archive, counters, incs>>
     /\ raceFrame

\* incrementCounter: readFileSync and parseInt(existing, 10) + 1; count
\* stays 1 when the read throws
readCount(c) == IF c.exists THEN PlusOne(parseCounter(c)) ELSE Num(1)

RecRead(p) ==
  /\ recorders[p].pc = "read"
  /\ recorders' = [recorders EXCEPT ![p] =
        [@ EXCEPT !.pc = "open",
                  !.count = readCount(counters[sanitizeSessionId(
                                       recorders[p].h.sessionId)])]]
  /\ UNCHANGED <<files, archive, counters, incs>>
  /\ raceFrame

\* incrementCounter: writeFileSync opens the counter file for writing, which
\* empties it
RecOpen(p) ==
  /\ recorders[p].pc = "open"
  /\ counters' = [counters EXCEPT
        ![sanitizeSessionId(recorders[p].h.sessionId)] = Unparsable]
  /\ recorders' = [recorders EXCEPT ![p].pc = "write"]
  /\ UNCHANGED <<files, archive, incs>>
  /\ raceFrame

\* a faulty variant: the count written is computed from the file as it is now
writeCount_Reread(c, count) == CounterText(readCount(c))

\* incrementCounter: String(count) is written; c is the counter file as the
\* process read it
writeCount(c, count) == CounterText(count)

\* incrementCounter: writeFileSync writes the text; the process exits 0
RecWrite(p) ==
  LET counterFile == sanitizeSessionId(recorders[p].h.sessionId) IN
  /\ recorders[p].pc = "write"
  /\ counters' = [counters EXCEPT
        ![counterFile] = writeCount(@, recorders[p].count)]
  /\ incs' = [incs EXCEPT ![counterFile] = @ + 1]
  /\ recorders' = [recorders EXCEPT ![p] =
        [@ EXCEPT !.pc = "done", !.incremented = TRUE, !.exit = 0,
                  !.count = Num(0)]]
  /\ UNCHANGED <<files, archive>>
  /\ raceFrame

\* Concurrent calls of incrementCounter and resetCounter.  A process calls
\* incrementCounter(sessionId): its steps are those of RecRead, RecOpen and
\* RecWrite
IncStart(p, sid) ==
  /\ recorders[p].pc = "idle"
  /\ \A q \in Recorders : q < p => recorders[q].pc # "idle"
  /\ recorders' = [recorders EXCEPT ![p] =
        [@ EXCEPT !.pc = "read", !.h.sessionId = sid, !.sinceReset = TRUE]]
  /\ UNCHANGED <<files, archive, counters, incs>>
  /\ raceFrame

\* resetCounter(sessionId): one unlinkSync
RaceReset(sid) ==
  LET r == resetCounter(World, sid, {})
  IN /\ counters' = r.w.counters
     /\ incs' = [c \in CounterNames |->
                   IF r.w.counters[c].exists THEN incs[c] ELSE 0]
     /\ recorders' = [p \in Recorders |->
           IF sanitizeSessionId(recorders[p].h.sessionId) = sanitizeSessionId(sid)
           THEN [recorders[p] EXCEPT !.sinceReset = FALSE] ELSE recorders[p]]
     /\ runs' = runs + 1
     /\ lastRun' = Run("reset", "", "", sid, RetInt(getCounter(World, sid)),
                       {}, 0, r.threw, 0, "", 0)
     /\ UNCHANGED <<files, archive, pending, disabled, configFile, now,
                    sessionEnv, analysis, resolverVars>>

\* A run of analyze-observations.js whose steps interleave with those of a
\* recorder.
analysisFrame ==
  UNCHANGED <<disabled, configFile, now, runs, lastRun, sessionEnv, recorders,
              resolverVars>>

\* main() up to the analyzer: the marker, the configuration, the count of the
\* log, and the test for the claude CLI; the skip and the pending branch
\* end the run here
AnStart(claudeExists) ==
  LET config == loadConfig(configFile, {})
      observationsFile == ObservationsFile(config)
      obsCount == countObservations(World, observationsFile, {})
      written == markPending(World, now, obsCount, {})
      end(branch) == [analysis EXCEPT !.pc = "done", !.branch = branch,
                                      !.file = observationsFile, !.exit = 0]
  IN /\ analysis.pc = "idle"
     /\ IF isDisabled(disabled) THEN analysis' = end("disabled")
        ELSE IF obsCount < MinObservations(config) THEN analysis' = end("skip")
        ELSE IF ~claudeExists THEN analysis' = end("pending")
        ELSE analysis' = [analysis EXCEPT !.pc = "spawn",
                                          !.file = observationsFile]
     /\ pending' = IF ~isDisabled(disabled)
                      /\ obsCount >= MinObservations(config) /\ ~claudeExists
                   THEN written.w.pending ELSE pending
     /\ UNCHANGED <<files, archive, counters, incs>>
     /\ analysisFrame

\* spawnSync('claude', ...): the analyzer is started and reads the log
AnSpawn ==
  /\ analysis.pc = "spawn"
  /\ analysis' = [analysis EXCEPT !.pc = "analyzing",
                                  !.seen = files[analysis.file].lines]
  /\ UNCHANGED <<files, archive, counters, pending, incs>>
  /\ analysisFrame

\* a faulty variant: a failed or timed-out analyzer is started again
AnReturn_Retry(status) ==
  /\ analysis.pc = "analyzing"
  /\ analysis' = [analysis EXCEPT !.pc = IF status = 0 THEN "archive"
                                         ELSE "spawn",
                                  !.status = status]
  /\ UNCHANGED <<files, archive, counters, pending, incs>>
  /\ analysisFrame

\* spawnSync returns: the analyzer exited with status 0 or another, or the
\* 120 s timeout killed it (-1); the status is logged and the run goes on
AnReturn(status) ==
  /\ analysis.pc = "analyzing"
  /\ analysis' = [analysis EXCEPT !.pc = "archive", !.status = status]
  /\ UNCHANGED <<files, archive, counters, pending, incs>>
  /\ analysisFrame

\* archiveObservations(observationsFile); an exception ends the run in
\* main().catch
AnArchive ==
  LET r == archiveObservations(World, analysis.file, now, {})
  IN /\ analysis.pc = "archive"
     /\ files' = r.w.files
     /\ archive' = r.w.archive
     /\ analysis' = IF r.threw
                    THEN [analysis EXCEPT !.pc = "done", !.branch = "error",
                                          !.exit = 0]
                    ELSE [analysis EXCEPT !.pc = "reset"]
     /\ UNCHANGED <<counters, pending, incs>>
     /\ analysisFrame

\* resetCounter(CLAUDE_SESSION_ID || 'default') and process.exit(0)
AnReset ==
  LET r == resetCounter(World, OrSid(sessionEnv, Default), {})
  IN /\ analysis.pc = "reset"
     /\ counters' = r.w.counters
     /\ incs' = [c \in CounterNames |->
                   IF r.w.counters[c].exists THEN incs[c] ELSE 0]
     /\ analysis' = [analysis EXCEPT !.pc = "done", !.branch = "analyzed",
                                     !.exit = 0]
     /\ UNCHANGED <<files, archive, pending>>
     /\ analysisFrame

\* the clock advances; a process reads it when it names an archive entry
\* and when it builds its observation, so time that passes while no process
\* is about to do either is not told apart
RaceTick ==
  /\ \E p \in Recorders : recorders[p].pc \in {"rename", "append"}
  /\ Tick

\* A hook process calls findOrInstall(packageName, binaryName).  The call is
\* four steps, and the steps of different processes interleave.
observerVars == <<files, archive, counters, pending, disabled, configFile, now,
                  incs, lastRun, sessionEnv, recorders, analysis>>

StartResolve(p, tool) ==
  /\ resolvers[p].pc \in {"idle", "done"}
  /\ resolvers' = [resolvers EXCEPT ![p] =
       [IdleResolver EXCEPT !.pc = "findInPath", !.packageName = tool[1],
                            !.binaryName = tool[2]]]
  /\ runs' = runs + 1
  /\ UNCHANGED <<observerVars, pathBins, hooksPackages, installs>>

\* a faulty variant: the isolated directory is looked into before the
\* search-path result is returned
StepFindInPath_Consults(p) ==
  LET r == resolvers[p]
      inPath == findInPath(pathBins, r.binaryName)
  IN /\ r.pc = "findInPath"
     /\ resolvers' = [resolvers EXCEPT ![p] =
          IF inPath # Null
          THEN [r EXCEPT !.pc = "done", !.ret = inPath, !.lookups = @ + 1]
          ELSE [r EXCEPT !.pc = "findInHooks"]]
     /\ UNCHANGED <<observerVars, runs, pathBins, hooksPackages, installs>>

\* 1. const inPath = findInPath(binaryName); if (inPath) return inPath
StepFindInPath(p) ==
  LET r == resolvers[p]
      inPath == findInPath(pathBins, r.binaryName)
  IN /\ r.pc = "findInPath"
     /\ resolvers' = [resolvers EXCEPT ![p] =
          IF inPath # Null THEN [r EXCEPT !.pc = "done", !.ret = inPath]
          ELSE [r EXCEPT !.pc = "findInHooks"]]
     /\ UNCHANGED <<observerVars, runs, pathBins, hooksPackages, installs>>

\* 2. const inHooks = findInHooksPackages(binaryName); if (inHooks) return inHooks
StepFindInHooks(p) ==
  LET r == resolvers[p]
      inHooks == findInHooksPackages(hooksPackages, r.binaryName)
  IN /\ r.pc = "findInHooks"
     /\ resolvers' = [resolvers EXCEPT ![p] =
          IF inHooks # Null
          THEN [r EXCEPT !.pc = "done", !.ret = inHooks, !.lookups = @ + 1]
          ELSE [r EXCEPT !.pc = "install", !.lookups = @ + 1]]
     /\ UNCHANGED <<observerVars, runs, pathBins, hooksPackages, installs>>

\* 3. const installed = installToHooksPackages(packageName);
\*    if (!installed) return null
StepInstall(p, outcome) ==
  LET r == resolvers[p]
      i == installToHooksPackages(hooksPackages, r.packageName, outcome)
  IN /\ r.pc = "install"
     /\ hooksPackages' = i.hp
     /\ installs' = [installs EXCEPT ![r.packageName] =
                        IF i.ok THEN @ + 1 ELSE @]
     /\ resolvers' = [resolvers EXCEPT ![p] =
          [r EXCEPT !.pc = IF i.ok THEN "postLookup" ELSE "done",
                    !.outcome = outcome, !.npm = @ + i.npm,
                    !.hint = @ + i.hint]]
     /\ UNCHANGED <<observerVars, runs, pathBins>>

\*    if (installed) return findInHooksPackages(binaryName)
StepPostLookup(p) ==
  LET r == resolvers[p]
  IN /\ r.pc = "postLookup"
     /\ resolvers' = [resolvers EXCEPT ![p] =
          [r EXCEPT !.pc = "done", !.lookups = @ + 1,
                    !.ret = findInHooksPackages(hooksPackages, r.binaryName)]]
     /\ UNCHANGED <<observerVars, runs, pathBins, hooksPackages, installs>>

\* The hooks of one session, every I/O operation succeeding
Next ==
  \/ Tick
  \/ runs < MaxRuns /\ ToggleDisabled
  \/ runs < MaxRuns /\ \E stdin \in Stdins, envSid \in EnvSessionIds :
       Record(stdin, envSid, {})
  \/ runs < MaxRuns /\ \E envSid \in EnvSessionIds, claudeExists \in BOOLEAN,
                          status \in AnalyzerStatuses :
       MaybeAnalyze(envSid, claudeExists, status, {})

Spec == Init /\ [][Next]_vars

\* The three entry points, each run meeting no I/O failure or one
NextFault ==
  \/ runs < MaxFaultRuns /\ ToggleDisabled
  \/ runs < MaxFaultRuns /\
       \E stdin \in Stdins, envSid \in EnvSessionIds,
          faults \in FaultSets("record") :
         Record(stdin, envSid, faults)
  \/ runs < MaxFaultRuns /\
       \E envSid \in EnvSessionIds, claudeExists \in BOOLEAN,
          status \in AnalyzerStatuses, faults \in FaultSets("maybeAnalyze") :
         MaybeAnalyze(envSid, claudeExists, status, faults)
  \/ runs < MaxFaultRuns /\
       \E minLen \in {0, 3}, hasTranscript \in BOOLEAN,
          messageCount \in MessageCounts,
          faults \in FaultSets("evaluateSession") :
         EvaluateSession(minLen, hasTranscript, messageCount, faults)

SpecFault == Init /\ [][NextFault]_vars

\* Direct calls of the counter functions, as the library's tests make them,
\* every I/O operation succeeding
InitLib == InitWith(NoConfigFile, NoFile)

NextCounter ==
  \/ runs < MaxCalls /\ \E sid \in SessionIds : CallIncrement(sid, {})
  \/ runs < MaxCalls /\ \E sid \in SessionIds : CallReset(sid, {})

SpecCounter == InitLib /\ [][NextCounter]_vars

\* Direct calls of the counter functions on a counter file that is missing,
\* holds text that is not a number (or nothing), or holds a number
CounterFiles == {NoCounter, Unparsable, CounterText(Num(5))}

InitCounterFile ==
  /\ \E c \in CounterFiles :
       InitObserverWith(NoConfigFile, NoFile,
                        [n \in CounterNames |->
                           IF n = sanitizeSessionId(S1) THEN c ELSE NoCounter])
  /\ InitResolver({}, NoHooksPackages)
  /\ sessionEnv = <<>>

NextCounterFile ==
  \/ runs < MaxCalls /\ \E sid \in {S1, Default} : CallIncrement(sid, {})
  \/ runs < MaxCalls /\ \E sid \in {S1, Default} : CallReset(sid, {})
  \/ runs < MaxCalls /\ \E sid \in {S1, Default} : CallGet(sid)

SpecCounterFile == InitCounterFile /\ [][NextCounterFile]_vars

\* Concurrent recorders: the host runs observe.js for several tool events at
\* once
RaceStdins == {PreEvent, PostEvent}

\* the log is missing, or holds the records of earlier sessions
RaceLogs == {l \in InitLogs : ~l.exists \/ Len(l.lines) > 1}

InitRace == \E cf \in ConfigFiles, l \in RaceLogs : InitWith(cf, l)

NextRace ==
  \/ \E p \in Recorders, stdin \in RaceStdins : RecStart(p, stdin)
  \/ \E p \in Recorders : RecStat(p)
  \/ \E p \in Recorders : RecRename(p)
  \/ \E p \in Recorders : RecAppend(p)
  \/ \E p \in Recorders : RecRead(p)
  \/ \E p \in Recorders : RecOpen(p)
  \/ \E p \in Recorders : RecWrite(p)
  \/ RaceTick

SpecRace == InitRace /\ [][NextRace]_vars

\* One session: CLAUDE_SESSION_ID is what the host set it to (or unset) in
\* every hook process of the behaviour.  The payloads name a tool (as
\* tool_name or as tool) or none, and the session or none.
NoToolEvent == Stdin("object", 1, "PostToolUse", "", "", NoVal, NoVal, <<>>)
NoToolPreEvent == Stdin("object", 2, "PreToolUse", "", "", NoVal, NoVal, S1)
SessionStdins == {PreEvent, PostEvent, BareEvent, NoToolEvent, NoToolPreEvent}

InitSession ==
  /\ \E cf \in ConfigFiles, l \in RaceLogs :
       InitObserver(cf, l) /\ InitResolver({}, NoHooksPackages)
  /\ sessionEnv \in EnvSessionIds

NextSession ==
  \/ runs < MaxSessionRuns /\ \E stdin \in SessionStdins :
       Record(stdin, sessionEnv, {})
  \/ runs < MaxSessionRuns /\ \E claudeExists \in BOOLEAN,
                                 status \in AnalyzerStatuses :
       MaybeAnalyze(sessionEnv, claudeExists, status, {})

SpecSession == InitSession /\ [][NextSession]_vars

\* An analysis pass at session end while the recorder of a last tool event
\* is still running
InitAnalysisRace ==
  /\ \E cf \in ConfigFiles, l \in RaceLogs :
       InitObserver(cf, l) /\ InitResolver({}, NoHooksPackages)
  /\ sessionEnv \in EnvSessionIds

NextAnalysisRace ==
  \/ \E stdin \in Stdins : RecStart(1, stdin)
  \/ RecStat(1)
  \/ RecRename(1)
  \/ RecAppend(1)
  \/ RecRead(1)
  \/ RecOpen(1)
  \/ RecWrite(1)
  \/ \E claudeExists \in BOOLEAN : AnStart(claudeExists)
  \/ AnSpawn
  \/ \E status \in AnalyzerStatuses : AnReturn(status)
  \/ AnArchive
  \/ AnReset
  \/ Tick

SpecAnalysisRace == InitAnalysisRace /\ [][NextAnalysisRace]_vars

\* The same processes, each scheduled until it exits: a process that has
\* started takes its next step, and spawnSync returns (the analyzer exits
\* or the timeout kills it)
RecorderSteps ==
  RecStat(1) \/ RecRename(1) \/ RecAppend(1) \/ RecRead(1) \/ RecOpen(1)
    \/ RecWrite(1)
AnalysisSteps ==
  AnSpawn \/ (\E status \in AnalyzerStatuses : AnReturn(status)) \/ AnArchive
    \/ AnReset

SpecAnalysisLive ==
  /\ InitAnalysisRace
  /\ [][NextAnalysisRace]_vars
  /\ WF_vars(RecorderSteps)
  /\ WF_vars(AnalysisSteps)

\* Concurrent increments and resets of the counters
NextCounterRace ==
  \/ \E p \in Recorders, sid \in {S1, Default} : IncStart(p, sid)
  \/ \E p \in Recorders : RecRead(p)
  \/ \E p \in Recorders : RecOpen(p)
  \/ \E p \in Recorders : RecWrite(p)
  \/ runs < MaxCalls /\ \E sid \in {S1, Default} : RaceReset(sid)

SpecCounterRace == InitCounterFile /\ [][NextCounterRace]_vars

\* Direct calls of append, rotation and archival
NextArchive ==
  \/ Tick
  \/ runs < MaxCalls /\ \E file \in LogPaths, obs \in {SeedLine, BlankLine} :
       CallAppend(file, obs, {})
  \/ runs < MaxCalls /\ \E file \in LogPaths, maxMB \in SizeLimits :
       CallRotate(file, maxMB, {})
  \/ runs < MaxCalls /\ \E file \in LogPaths : CallArchive(file, {})

SpecArchive == InitLib /\ [][NextArchive]_vars

\* observe.js on payloads of every tag and size, every I/O operation
\* succeeding
NextInput ==
  \/ runs < MaxInputRuns /\ \E stdin \in Payloads, envSid \in EnvSessionIds :
       Record(stdin, envSid, {})

SpecInput == InitLib /\ [][NextInput]_vars

\* The two hooks with a missing, an unparseable and a valid config.json, on
\* logs at the default threshold and at the default size limit, every I/O
\* operation succeeding
InitDefaults == \E cf \in ConfigCases, l \in BoundaryLogs : InitWith(cf, l)

NextDefaults ==
  \/ runs < MaxDefaultsRuns /\ \E stdin \in {PreEvent, PostEvent} :
       Record(stdin, <<>>, {})
  \/ runs < MaxDefaultsRuns /\ \E claudeExists \in BOOLEAN :
       MaybeAnalyze(<<>>, claudeExists, 0, {})

SpecDefaults == InitDefaults /\ [][NextDefaults]_vars

\* Hook processes resolving binaries on one machine: the search path holds
\* any of the binaries, and the isolated directory is missing, empty or
\* holds one already
InitInstall ==
  /\ InitObserver(NoConfigFile, NoFile)
  /\ sessionEnv = <<>>
  /\ \E onPath \in SUBSET Binaries,
        hp \in {NoHooksPackages} \cup
               {[exists |-> TRUE, bins |-> b] :
                  b \in {{}, {"prettier"}, Binaries}} :
       InitResolver(onPath, hp)

NextInstall ==
  \/ runs < MaxResolutions /\ \E p \in Procs, tool \in Tools : StartResolve(p, tool)
  \/ \E p \in Procs : StepFindInPath(p)
  \/ \E p \in Procs : StepFindInHooks(p)
  \/ \E p \in Procs, outcome \in InstallOutcomes : StepInstall(p, outcome)
  \/ \E p \in Procs : StepPostLookup(p)

SpecInstall == InitInstall /\ [][NextInstall]_vars

\* A run of one of the post-edit hooks, from its first chunk to its exit
PostEdit(op, r, edit) ==
  /\ hooksPackages' = r.hp
  /\ installs' = [installs EXCEPT ![IF op = "postEditFormat" THEN "prettier"
                                    ELSE "typescript"] = @ + r.installed]
  /\ runs' = runs + 1
  /\ lastRun' = Run(op, edit.kind, "", <<>>,
                    [stdin |-> edit.stream, stdout |-> r.stdout,
                     stderr |-> r.stderr],
                    {}, r.exit, FALSE, 0, r.branch, r.tool)
  /\ UNCHANGED <<files, archive, counters, pending, disabled, configFile,
                 now, incs, sessionEnv, recorders, analysis, pathBins,
                 resolvers>>

PostEditFormat(edit, env) ==
  PostEdit("postEditFormat", postEditFormat(pathBins, hooksPackages, edit, env),
           edit)

PostEditTypecheck(edit, env) ==
  PostEdit("postEditTypecheck",
           postEditTypecheck(pathBins, hooksPackages, edit, env), edit)

\* The post-edit hooks run one after another on a machine of SpecInstall
NextPostEdit ==
  \/ runs < MaxPostEdits /\ \E edit \in Edits, env \in EditEnvs :
       PostEditFormat(edit, env)
  \/ runs < MaxPostEdits /\ \E edit \in Edits, env \in EditEnvs :
       PostEditTypecheck(edit, env)

SpecPostEdit == InitInstall /\ [][NextPostEdit]_vars

-----------------------------------------------------------------------------
(* Properties *)

\* this step is a run of op
Ran(op) == runs' = runs + 1 /\ lastRun'.op = op

\* the Observation shape of the specification's data model
ObservationShape(line) ==
  /\ {"timestamp", "event", "tool", "session"} \subseteq DOMAIN line
  /\ DOMAIN line \subseteq
       {"timestamp", "event", "tool", "session", "input", "output"}
  /\ line.event \in {"tool_start", "tool_complete"}

\* C1: a run of record on a valid (parseable, non-empty) payload, the disable
\* marker absent and no I/O operation failing, leaves the active log with
\* exactly one more line, of the Observation shape: either the old lines are
\* all still there before it, or they were rotated into an 'observations'
\* archive entry and the new line is the only one; no other log changes.
C1_RecordAppendsOneLine ==
  [][(Ran("record") /\ lastRun'.kind = "valid" /\ ~disabled
        /\ lastRun'.faults = {}) =>
       LET f == lastRun'.file
           old == files[f].lines
           new == files'[f].lines
       IN /\ files'[f].exists
          /\ Len(new) > 0
          /\ ObservationShape(new[Len(new)])
          /\ \/ new = Append(old, new[Len(new)])
             \/ /\ Len(new) = 1
                /\ \E n \in DOMAIN archive'.entries :
                     n[1] = "observations" /\ archive'.entries[n] = old
          /\ \A g \in LogPaths \ {f} : files'[g] = files[g]]_vars

\* C1 witness: a record was appended after lines the log already held
C1_Witness ==
  /\ lastRun.op = "record"
  /\ lastRun.branch = "recorded"
  /\ Len(files[lastRun.file].lines) > 1
  /\ archive.entries # <<>>

\* C2: a run of record on unparseable input, on no input or on the empty
\* object leaves the logs, the archive, the counters and the pending marker
\* as they were, whatever fails.
C2_MalformedLeavesStateUnchanged ==
  [][(Ran("record") /\ lastRun'.kind \in {"unparseable", "empty", "empty_object"})
       => UNCHANGED <<files, archive, counters, pending>>]_vars

\* C2 witness: a malformed payload arrived when the log was due for rotation
\* and was left alone
C2_Witness ==
  /\ lastRun.op = "record"
  /\ lastRun.kind = "unparseable"
  /\ lastRun.branch = "no_data"
  /\ files[lastRun.file].exists
  /\ ~SizeBelow(getFileSizeBytes(World, lastRun.file),
                MaxFileSizeMB(loadConfig(configFile, {})))

\* C3: every run of an entry point (record, maybeAnalyze, the session
\* evaluator) exits with status 0, whatever fails.
C3_AlwaysExitZero ==
  lastRun.op \in {"record", "maybeAnalyze", "evaluateSession"}
    => lastRun.exit = 0

\* the number of non-blank lines of a log, and the threshold config.json sets
NonBlankLines(file) ==
  IF files[file].exists
  THEN Cardinality({i \in 1..Len(files[file].lines) :
                      ~IsBlank(files[file].lines[i])})
  ELSE 0
Threshold ==
  IF configFile.state = "valid" /\ configFile.min_observations_to_analyze # 0
  THEN configFile.min_observations_to_analyze ELSE MIN_OBSERVATIONS_DEFAULT

\* C4: while the disable marker exists, a run of record or of maybeAnalyze
\* (no I/O operation failing) changes no log, archive entry, counter or
\* pending marker, invokes no analyzer and exits 0.
C4_DisabledDoesNothing ==
  [][((Ran("record") \/ Ran("maybeAnalyze")) /\ disabled
        /\ lastRun'.faults = {}) =>
       /\ UNCHANGED <<files, archive, counters, pending>>
       /\ lastRun'.analyzer = 0
       /\ lastRun'.branch = "disabled"
       /\ lastRun'.exit = 0]_vars

\* C4 witness: maybeAnalyze ran disabled on a log that had reached the
\* threshold, with the analyzer at hand
C4_Witness ==
  /\ lastRun.op = "maybeAnalyze"
  /\ lastRun.kind = "claude"
  /\ disabled
  /\ NonBlankLines(lastRun.file) >= Threshold

C6_ArchiveAddsOneEntry ==
  [][(Ran("archive") /\ lastRun'.faults = {}) =>
       LET f == lastRun'.file
           before == DOMAIN archive.entries
           after == DOMAIN archive'.entries
       IN /\ ~lastRun'.threw
          /\ IF files[f].exists
             THEN /\ ~files'[f].exists
                  /\ \E n \in after \ before :
                       /\ after = before \cup {n}
                       /\ n[1] = "processed"
                       /\ archive'.entries[n] = files[f].lines
                  /\ \A m \in before : archive'.entries[m] = archive.entries[m]
             ELSE UNCHANGED <<files, archive>>]_vars

\* C7: from an absent counter file, the k-th sequential increment returns k,
\* and getCounter then returns k.
C7_IncrementCounts ==
  /\ \A sid \in SessionIds :
       getCounter(World, sid) = Num(incs[sanitizeSessionId(sid)])
  /\ (lastRun.op = "increment" /\ ~lastRun.threw)
       => lastRun.ret = incs[sanitizeSessionId(lastRun.sid)]

\* C7 witness: a third increment in a row returned 3
C7_Witness ==
  /\ lastRun.op = "increment"
  /\ lastRun.ret = 3
  /\ getCounter(World, lastRun.sid) = Num(3)

\* C8: after resetCounter(id), getCounter(id) is 0 whatever the counter held;
\* reset does not throw, also on an absent counter, and a second reset
\* changes nothing.
C8_ResetYieldsZero ==
  [][Ran("reset") =>
       /\ ~lastRun'.threw
       /\ getCounter(World', lastRun'.sid) = Num(0)
       /\ resetCounter(World', lastRun'.sid, {}) = Ret(World', FALSE)
       /\ \A c \in CounterNames \ {sanitizeSessionId(lastRun'.sid)} :
            counters'[c] = counters[c]]_vars

\* C8 witness: a counter that stood at 2 or more was reset
C8_Witness ==
  /\ lastRun.op = "reset"
  /\ lastRun.arg >= 2
  /\ getCounter(World, lastRun.sid) = Num(0)

\* C9: a run of maybeAnalyze, the disable marker absent and no I/O operation
\* failing: with fewer non-blank lines in the log than the threshold it skips
\* (no analyzer invocation, no change to log, archive, counters or pending
\* marker); with as many or more it takes the analyzer or the pending branch.
C9_BelowThresholdSkips ==
  [][(Ran("maybeAnalyze") /\ ~disabled /\ lastRun'.faults = {}) =>
       IF NonBlankLines(lastRun'.file) < Threshold
       THEN /\ lastRun'.branch = "skip"
            /\ lastRun'.analyzer = 0
            /\ lastRun'.exit = 0
            /\ UNCHANGED <<files, archive, counters, pending>>
       ELSE lastRun'.branch \in {"analyzed", "pending"}]_vars

\* C9 witness: a log with lines, but fewer non-blank ones than the threshold,
\* was skipped
C9_Witness ==
  /\ lastRun.op = "maybeAnalyze"
  /\ lastRun.branch = "skip"
  /\ Len(files[lastRun.file].lines) > 0

\* C10: a run of maybeAnalyze, the disable marker absent and no I/O operation
\* failing, on a log that has reached the threshold and with no analyzer
\* command in PATH writes the pending marker (the time and the number of
\* observations) and leaves the logs, the archive and the counters as they
\* were.
C10_NoAnalyzerMarksPending ==
  [][(Ran("maybeAnalyze") /\ ~disabled /\ lastRun'.faults = {}
        /\ lastRun'.kind = "no_claude"
        /\ NonBlankLines(lastRun'.file) >= Threshold) =>
       /\ lastRun'.branch = "pending"
       /\ lastRun'.analyzer = 0
       /\ pending' = [exists |-> TRUE, timestamp |-> now,
                      count |-> NonBlankLines(lastRun'.file)]
       /\ UNCHANGED <<files, archive, counters>>]_vars

\* C10 witness: the pending marker was written while a counter was running
C10_Witness ==
  /\ lastRun.op = "maybeAnalyze"
  /\ lastRun.branch = "pending"
  /\ pending.exists
  /\ files[lastRun.file].exists
  /\ \E c \in CounterNames : counters[c].exists

\* C11: a run of maybeAnalyze, the disable marker absent and no I/O operation
\* failing, on a log that has reached the threshold and with the analyzer in
\* PATH invokes the analyzer once and then, whatever its exit status (0,
\* non-zero, killed by the timeout), leaves no active log, has the log's lines
\* in a 'processed-' archive entry and the counter of the session
\* (CLAUDE_SESSION_ID or 'default') reading 0.
C11_AnalyzedArchivesAndResets ==
  [][(Ran("maybeAnalyze") /\ ~disabled /\ lastRun'.faults = {}
        /\ lastRun'.kind = "claude"
        /\ NonBlankLines(lastRun'.file) >= Threshold) =>
       /\ lastRun'.analyzer = 1
       /\ lastRun'.branch = "analyzed"
       /\ lastRun'.exit = 0
       /\ ~files'[lastRun'.file].exists
       /\ \E n \in DOMAIN archive'.entries :
            n[1] = "processed" /\ archive'.entries[n] = files[lastRun'.file].lines
       /\ getCounter(World', lastRun'.sid) = Num(0)
       /\ UNCHANGED pending]_vars

\* C11 witness: the analyzer failed or timed out, the log was archived all the
\* same and a counter that was running was reset
C11_Witness ==
  /\ lastRun.op = "maybeAnalyze"
  /\ lastRun.branch = "analyzed"
  /\ lastRun.ret # 0
  /\ ~files[lastRun.file].exists
  /\ \E n \in DOMAIN archive.entries : n[1] = "processed"
  /\ lastRun.arg >= 1
  /\ getCounter(World, lastRun.sid) = Num(0)

\* C12: findOrInstall follows search path > isolated directory > install.  A
\* call for a binary that is on the search path returns the search-path
\* result and runs no install, also when the isolated directory holds the
\* binary too; a call goes on to the install step only when its lookup in the
\* isolated directory found nothing; and a call whose install succeeded
\* returns the path in the isolated directory.
C12_ResolutionPrecedence ==
  [][\A p \in Procs :
       LET r == resolvers'[p] IN
       /\ (r.pc = "done" /\ r.binaryName \in pathBins) =>
            r.ret = <<"path", r.binaryName>> /\ r.npm = 0 /\ r.outcome = ""
       /\ (r.pc = "done" /\ r.binaryName \notin pathBins /\ r.outcome \in {"", "ok"})
            => r.ret = <<"hooks", r.binaryName>>
       /\ (r.pc = "install" /\ resolvers[p].pc # "install") =>
            /\ r.binaryName \notin pathBins
            /\ ~(hooksPackages.exists /\ r.binaryName \in hooksPackages.bins)]_vars

\* C12 witness: one call returned the search-path result for a binary that is
\* in the isolated directory too, and another, for a binary in neither place,
\* installed it and returned the path in the isolated directory
C12_Witness ==
  \E p, q \in Procs :
    /\ resolvers[p].pc = "done"
    /\ resolvers[p].ret = <<"path", resolvers[p].binaryName>>
    /\ resolvers[p].binaryName \in hooksPackages.bins
    /\ resolvers[q].pc = "done"
    /\ resolvers[q].outcome = "ok"
    /\ resolvers[q].ret = <<"hooks", resolvers[q].binaryName>>

\* C13: over all findOrInstall calls on one machine, concurrent ones
\* included, the package manager installs a package successfully at most once.
C13_InstallOncePerTool == \A pkg \in Packages : installs[pkg] <= 1

\* C14: a findOrInstall call whose install step failed (the directory could
\* not be created, or the package manager failed or timed out) returns null,
\* has written the manual-install hint once, has run the install step once
\* and has made no lookup after it.
C14_InstallFailureReported ==
  \A p \in Procs :
    (resolvers[p].pc = "done"
       /\ resolvers[p].outcome \in {"mkdir_fails", "npm_fails"}) =>
      /\ resolvers[p].ret = Null
      /\ resolvers[p].hint = 1
      /\ resolvers[p].npm <= 1
      /\ resolvers[p].lookups = 1

\* the line a run of record has just appended to its log
LastLine == files'[lastRun'.file].lines[Len(files'[lastRun'.file].lines)]

\* C15: no record written by record carries both input and output: a
\* tool_start record carries no output and a tool_complete record no input,
\* whatever the event-type tag of the payload.
C15_InputOutputExclusive ==
  [][(Ran("record") /\ lastRun'.branch = "recorded") =>
       /\ ~({"input", "output"} \subseteq DOMAIN LastLine)
       /\ LastLine.event = "tool_start" => "output" \notin DOMAIN LastLine
       /\ LastLine.event = "tool_complete" => "input" \notin DOMAIN LastLine]_vars

\* C16: with config.json missing or not valid JSON, loadConfig returns null
\* and the hooks run on the defaults: record writes to the default log and
\* rotates it exactly when it has reached 10 MB, maybeAnalyze counts the
\* default log and skips exactly when it holds fewer than 20 records.
C16_NoConfigMeansDefaults ==
  [][(configFile.state \in {"missing", "invalid"} /\ ~disabled) =>
       /\ loadConfig(configFile, {}) = NoConfig
       /\ (Ran("record") /\ lastRun'.kind = "valid" /\ lastRun'.faults = {}) =>
            LET old == files[DefaultLog].lines
                new == files'[DefaultLog].lines
            IN /\ lastRun'.file = DefaultLog
               /\ files'[CustomLog] = files[CustomLog]
               /\ IF SumBytes(old) >= MAX_FILE_SIZE_MB_DEFAULT * BYTES_PER_MB
                  THEN /\ Len(new) = 1
                       /\ \E n \in DOMAIN archive'.entries :
                            n[1] = "observations" /\ archive'.entries[n] = old
                  ELSE new = Append(old, new[Len(new)]) /\ UNCHANGED archive
       /\ (Ran("maybeAnalyze") /\ lastRun'.faults = {}) =>
            /\ lastRun'.file = DefaultLog
            /\ files'[CustomLog] = files[CustomLog]
            /\ lastRun'.branch = "skip"
                 <=> (Cardinality({i \in 1..Len(files[DefaultLog].lines) :
                                     ~IsBlank(files[DefaultLog].lines[i])})
                        < MIN_OBSERVATIONS_DEFAULT)]_vars

\* C16 witness: with a config.json that does not parse, a log of exactly
\* 10 MB was rotated by record and the log that followed it, one record
\* long, was skipped by maybeAnalyze
C16_Witness ==
  /\ configFile.state = "invalid"
  /\ lastRun.op = "maybeAnalyze"
  /\ lastRun.branch = "skip"
  /\ Len(files[DefaultLog].lines) = 1
  /\ \E n \in DOMAIN archive.entries :
       /\ n[1] = "observations"
       /\ SumBytes(archive.entries[n]) = MAX_FILE_SIZE_MB_DEFAULT * BYTES_PER_MB

\* C19: in a record written by record, input and output, when present, are
\* the first 5000 characters of the serialised tool input and tool output:
\* the whole serialisation when it is that short, and never more than 5000
\* characters.
C19_FieldsTruncated ==
  [][(Ran("record") /\ lastRun'.branch = "recorded") =>
       /\ "input" \in DOMAIN LastLine =>
            /\ LastLine.input <= TRUNCATE_CHARS
            /\ LastLine.input = lastRun'.arg.input
                 \/ (lastRun'.arg.input > TRUNCATE_CHARS
                       /\ LastLine.input = TRUNCATE_CHARS)
       /\ "output" \in DOMAIN LastLine =>
            /\ LastLine.output <= TRUNCATE_CHARS
            /\ LastLine.output = lastRun'.arg.output
                 \/ (lastRun'.arg.output > TRUNCATE_CHARS
                       /\ LastLine.output = TRUNCATE_CHARS)]_vars

\* C19 witness: a scalar input of 5001 characters and an object output of
\* 6000 were both recorded cut to 5000
C19_Witness ==
  /\ lastRun.op = "record"
  /\ lastRun.branch = "recorded"
  /\ lastRun.arg.input = TRUNCATE_CHARS + 1
  /\ lastRun.arg.output = TRUNCATE_CHARS + 1000
  /\ LET line == files[lastRun.file].lines[Len(files[lastRun.file].lines)]
     IN /\ "input" \in DOMAIN line /\ line.input = TRUNCATE_CHARS
        /\ "output" \in DOMAIN line /\ line.output = TRUNCATE_CHARS

\* a file name that cannot leave its directory: at most 64 characters, all
\* of them letters, digits, '_' or '-'
SafeName(name) ==
  /\ Len(name) <= SESSION_ID_MAX
  /\ \A i \in 1..Len(name) : name[i] \in SafeChars

\* C17: whatever session identifier increment, get and reset are called
\* with, the counter file they read, write or delete has a name component of
\* at most 64 characters from [A-Za-z0-9_-]: every counter file is a direct
\* child of the temp directory.
C17_CounterFileNameSafe ==
  /\ \A c \in DOMAIN counters : counters[c].exists => SafeName(c)
  /\ lastRun.op \in {"increment", "reset"} =>
       SafeName(sanitizeSessionId(lastRun.sid))

\* C17 witness: counters were incremented under '../etc' and under an
\* identifier of 70 characters
C17_Witness ==
  /\ lastRun.op = "increment"
  /\ lastRun.sid = LongId
  /\ \E c \in DOMAIN counters : counters[c].exists /\ Len(c) = SESSION_ID_MAX
  /\ counters[<<"_", "_", "_", "e", "t", "c">>].exists

\* C18: countObservations(file) is the number of lines of the file that hold
\* a non-whitespace character: 0 for a missing file, an empty file and a file
\* of blank lines only; each appendObservation adds 1 to it.
C18_CountsNonBlankLines ==
  [][/\ \A f \in LogPaths :
          /\ countObservations(World', f, {}) =
               (IF files'[f].exists
                THEN Cardinality({i \in 1..Len(files'[f].lines) :
                                    ~IsBlank(files'[f].lines[i])})
                ELSE 0)
          /\ (\A i \in 1..Len(files'[f].lines) : IsBlank(files'[f].lines[i]))
               => countObservations(World', f, {}) = 0
     /\ Ran("append") =>
          countObservations(World', lastRun'.file, {}) =
            countObservations(World, lastRun'.file, {})
              + (IF Len(files'[lastRun'.file].lines) > 0
                    /\ ~IsBlank(LastLine) THEN 1 ELSE 0)]_vars

\* C18 witness: a log of two records and two blank lines counts 2
C18_Witness ==
  \E f \in LogPaths :
    /\ lastRun.op = "append"
    /\ Len(files[f].lines) = 4
    /\ countObservations(World, f, {}) = 2

\* C20: a run of record in which the rename of the rotation or the append
\* fails still exits 0 and still carries out the later steps: after a failed
\* rename the record is appended, and after either failure the session
\* counter is incremented.
C20_StepsFailSoft ==
  [][(Ran("record") /\ lastRun'.kind = "valid" /\ ~disabled
        /\ lastRun'.faults \in {{"rename"}, {"append"}}) =>
       /\ lastRun'.exit = 0
       /\ getCounter(World', lastRun'.sid) = PlusOne(getCounter(World, lastRun'.sid))
       /\ lastRun'.faults = {"rename"} =>
            /\ files'[lastRun'.file].exists
            /\ files'[lastRun'.file].lines # files[lastRun'.file].lines]_vars

\* C21: incrementCounter on a missing or an unparsable counter file writes
\* and returns 1; getCounter returns an integer, also on an unparsable file;
\* after an increment the counter file holds a decimal integer >= 1.
C21_UnparsableCountsAsZero ==
  /\ lastRun.op = "increment" =>
       /\ lastRun.kind \in {"missing", "unparsable"} => lastRun.ret = 1
       /\ LET c == counters[sanitizeSessionId(lastRun.sid)]
          IN c.exists /\ ~c.nan /\ c.n >= 1
  /\ lastRun.op = "get" => lastRun.ret >= 0

\* C22: the read-increment-write of the counter is not atomic across
\* processes: the count a process writes is the one it computed when it read
\* the file, whatever other increments have completed since, so two
\* concurrent increments of one session can leave the counter below the
\* number of completed increments.
C22_IncrementNotAtomic ==
  [][\A p \in Recorders :
       recorders[p].pc = "write" /\ recorders'[p].pc = "done" =>
         LET counterFile == sanitizeSessionId(recorders[p].h.sessionId)
         IN /\ counters'[counterFile] = CounterText(recorders[p].count)
            /\ incs'[counterFile] = incs[counterFile] + 1]_vars

\* two increments of one session have completed and the counter reads 1
C22_Witness ==
  \E c \in CounterNames :
    /\ \A p \in Recorders :
         /\ recorders[p].pc = "done" /\ recorders[p].incremented
         /\ sanitizeSessionId(recorders[p].h.sessionId) = c
    /\ incs[c] >= 2
    /\ counters[c].exists /\ ~counters[c].nan
    /\ counters[c].n < incs[c]

\* C23: while the log stays below the rotation threshold, every completed
\* append of a concurrent recorder adds exactly that recorder's one record at
\* the end of the log, and no other step touches the log: no record is
\* lost, duplicated or interleaved with another.
C23_ConcurrentAppendsKeepEveryLine ==
  [][\A f \in LogPaths :
       LET appenders == {p \in Recorders :
                          /\ recorders[p].file = f
                          /\ ~recorders[p].appended /\ recorders'[p].appended}
       IN (\A p \in Recorders : ~recorders'[p].rotated) =>
            /\ Cardinality(appenders) <= 1
            /\ appenders = {} => files'[f] = files[f]
            /\ \A p \in appenders :
                 /\ files'[f].exists
                 /\ files'[f].lines = Append(files[f].lines, recorders'[p].obs)
                 /\ ObservationShape(recorders'[p].obs)]_vars

\* both recorders have appended to a log that was not rotated, and the log
\* holds the records of both after the lines it started with
C23_Witness ==
  /\ \A p \in Recorders :
       /\ recorders[p].pc = "done" /\ recorders[p].appended
       /\ ~recorders[p].rotated
       /\ recorders[p].file = DefaultLog
  /\ \E p, q \in Recorders :
       /\ p # q
       /\ recorders[p].obs # recorders[q].obs
       /\ LET lines == files[DefaultLog].lines
          IN /\ Len(lines) >= MaxRecorders + MIN_OBSERVATIONS_DEFAULT
             /\ lines[Len(lines) - 1] = recorders[p].obs
             /\ lines[Len(lines)] = recorders[q].obs

\* C24: no size-rotation and no post-analysis archival renames a log onto an
\* archive name that already exists: a call that moves a log away adds a
\* name to the archive directory and leaves every earlier entry as it was.
C24_ArchiveNamesNeverCollide ==
  [][\A f \in LogPaths :
       /\ Ran("rotate") \/ Ran("archive")
       /\ lastRun'.file = f
       /\ files[f].exists /\ ~files'[f].exists
       => /\ DOMAIN archive.entries \subseteq DOMAIN archive'.entries
          /\ DOMAIN archive'.entries # DOMAIN archive.entries
          /\ \A n \in DOMAIN archive.entries :
               archive'.entries[n] = archive.entries[n]]_vars

\* C25: the active log is never truncated or rewritten in place: a step that
\* changes a log either adds one whole record after the lines it held, or
\* renames the log into the archive; after a rename by a record run (a
\* rotation) the log is a fresh file holding exactly that run's one record,
\* after a rename by an analysis pass the path no longer exists.
C25_LogGrowsOrIsRenamed ==
  [][\A f \in LogPaths :
       LET old == files[f].lines
           new == files'[f].lines
       IN files'[f] # files[f] =>
            \/ /\ files'[f].exists
               /\ Len(new) = Len(old) + 1
               /\ SubSeq(new, 1, Len(old)) = old
               /\ ObservationShape(new[Len(new)])
            \/ /\ files[f].exists
               /\ \E n \in DOMAIN archive'.entries :
                    /\ archive'.entries[n] = old
                    /\ IF Ran("record")
                       THEN /\ n = ArchiveName("observations", now)
                            /\ files'[f].exists
                            /\ Len(new) = 1
                            /\ ObservationShape(new[1])
                            /\ new[1].timestamp = now
                            /\ new[1].session = lastRun'.sid
                       ELSE /\ n = ArchiveName("processed", now)
                            /\ ~files'[f].exists]_vars

\* C25 witness: a record run rotated a log of earlier records, and the log
\* is a fresh file holding that run's record only
C25_Witness ==
  /\ lastRun.op = "record"
  /\ lastRun.branch = "recorded"
  /\ files[lastRun.file].exists
  /\ Len(files[lastRun.file].lines) = 1
  /\ files[lastRun.file].lines[1].timestamp = now
  /\ ArchiveName("observations", now) \in DOMAIN archive.entries
  /\ Len(archive.entries[ArchiveName("observations", now)])
       >= MIN_OBSERVATIONS_DEFAULT

\* C26: the counter an analysis pass resets is the counter the records of
\* the session were counted under: after a pass with the analyzer available,
\* getCounter returns 0 for every session id records were counted under,
\* whether or not the payloads carry a session_id and whether or not
\* CLAUDE_SESSION_ID is set.
C26_AnalysisResetsCountedSession ==
  (lastRun.op = "maybeAnalyze" /\ lastRun.branch = "analyzed") =>
    \A sid \in SessionIds : getCounter(World, sid) = Num(0)

\* C27: a record whose payload is tagged PreToolUse has event tool_start,
\* one tagged PostToolUse has event tool_complete, every record has one of
\* the two events; its tool is "unknown" exactly when the payload has
\* neither tool_name nor tool, and its session is "unknown" exactly when the
\* payload has no session_id and CLAUDE_SESSION_ID is not set.
C27_RecordClassification ==
  [][(Ran("record") /\ lastRun'.branch = "recorded") =>
       LET given == lastRun'.arg
       IN /\ given.hook_type = "PreToolUse" => LastLine.event = "tool_start"
          /\ given.hook_type = "PostToolUse" => LastLine.event = "tool_complete"
          /\ LastLine.event \in {"tool_start", "tool_complete"}
          /\ LastLine.tool = "unknown"
               <=> (given.tool_name = "" /\ given.tool = "")
          /\ LastLine.tool # "unknown"
               => LastLine.tool \in {given.tool_name, given.tool}
          /\ LastLine.session = Unknown
               <=> (given.session_id = <<>> /\ sessionEnv = <<>>)
          /\ LastLine.session # Unknown
               => LastLine.session \in {given.session_id, sessionEnv}]_vars

\* C27 witness: a PostToolUse payload without tool and session, recorded with
\* CLAUDE_SESSION_ID unset, after a PreToolUse record that names both
C27_Witness ==
  /\ lastRun.op = "record"
  /\ lastRun.branch = "recorded"
  /\ lastRun.arg.hook_type = "PostToolUse"
  /\ sessionEnv = <<>>
  /\ LET lines == files[lastRun.file].lines
     IN /\ Len(lines) >= 2
        /\ lines[Len(lines)].event = "tool_complete"
        /\ lines[Len(lines)].tool = "unknown"
        /\ lines[Len(lines)].session = Unknown
        /\ lines[Len(lines) - 1].event = "tool_start"
        /\ lines[Len(lines) - 1].tool = "Read"
        /\ lines[Len(lines) - 1].session = S1

\* C28: the first hit wins.  A findOrInstall call that finds the binary on
\* the search path returns it without looking into the isolated directory;
\* one that finds it in the isolated directory returns it after that one
\* lookup; neither invokes the package manager, and the returning step
\* leaves the isolated directory and the install count as they were.
C28_FirstHitWins ==
  [][\A p \in Procs :
       LET r == resolvers[p]
           done == resolvers'[p]
       IN /\ (r.pc = "findInPath" /\ done.pc = "done") =>
               /\ done.ret = <<"path", r.binaryName>>
               /\ done.lookups = 0
               /\ done.npm = 0 /\ done.outcome = ""
               /\ UNCHANGED <<hooksPackages, installs>>
          /\ (r.pc = "findInHooks" /\ done.pc = "done") =>
               /\ done.ret = <<"hooks", r.binaryName>>
               /\ done.lookups = 1
               /\ done.npm = 0 /\ done.outcome = ""
               /\ UNCHANGED <<hooksPackages, installs>>]_vars

\* C28 witness: one call returned the search-path result without a lookup
\* in the isolated directory, which holds the binary too, and another
\* returned the binary found in the isolated directory; no install ran
C28_Witness ==
  /\ \A pkg \in Packages : installs[pkg] = 0
  /\ \E p, q \in Procs :
       /\ resolvers[p].pc = "done"
       /\ resolvers[p].ret = <<"path", resolvers[p].binaryName>>
       /\ resolvers[p].binaryName \in hooksPackages.bins
       /\ resolvers[p].lookups = 0
       /\ resolvers[q].pc = "done"
       /\ resolvers[q].ret = <<"hooks", resolvers[q].binaryName>>
       /\ resolvers[q].lookups = 1
       /\ resolvers[q].npm = 0

\* C29: a log is rotated and archived into the sibling directory
\* <basename>.archive, so the entries of a log go to a directory no log of
\* another base name in the same directory is archived into.
C29_ArchiveDirNamedAfterLog ==
  [][\A f \in LogPaths :
       /\ Ran("rotate") \/ Ran("archive")
       /\ lastRun'.file = f
       /\ files[f].exists /\ ~files'[f].exists
       /\ archive'.exists
       => LET \* the sibling directory <dirname>/<basename>.archive
              named == CASE f = DefaultLog -> "homunculus/observations.archive"
                         [] f = CustomLog -> "homunculus/events.archive"
          IN /\ archiveDir(f) = named
             /\ \A g \in LogPaths \ {f} : archiveDir(g) # archiveDir(f)]_vars

\* the records (blank lines are none) held by the logs and by the archive
\* entries together
RecordsOf(lines) == Cardinality({i \in 1..Len(lines) : ~IsBlank(lines[i])})

RECURSIVE CountIn(_, _)
CountIn(store, names) ==
  IF names = {} THEN 0
  ELSE LET n == CHOOSE x \in names : TRUE
       IN RecordsOf(store[n]) + CountIn(store, names \ {n})

StoredRecords ==
  CountIn([f \in LogPaths |-> files[f].lines], LogPaths)
    + CountIn(archive.entries, DOMAIN archive.entries)

\* C30: record conservation: no operation destroys a recorded observation.
\* An append adds one record to the records stored in the logs and the
\* archive entries together, and a rotation or an archival leaves their
\* number as it is.
C30_RecordConservation ==
  [][/\ StoredRecords' >= StoredRecords
     /\ Ran("append") =>
          StoredRecords' = StoredRecords + RecordsOf(<<LastLine>>)
     /\ Ran("rotate") \/ Ran("archive") =>
          StoredRecords' = StoredRecords]_vars

\* C31: the file growth bound.  When a recorder completes its append, the
\* log is smaller than maxMB megabytes plus its record plus the records
\* other recorders appended between its size check and its append; so with
\* recorders running one at a time the bound is maxMB megabytes plus the one
\* record just appended, and with k recorders interleaving it is maxMB
\* megabytes plus k records.
C31_FileGrowthBound ==
  [][\A p \in Recorders :
       (~recorders[p].appended /\ recorders'[p].appended) =>
         LET r == recorders[p]
             lines == files'[r.file].lines
             k == Min(r.others + 1, Len(lines))
             lastK == SubSeq(lines, Len(lines) - k + 1, Len(lines))
         IN /\ r.others + 1 <= MaxRecorders
            /\ lines[Len(lines)] = recorders'[p].obs
            /\ (SumBytes(lines) - SumBytes(lastK)) * r.maxMB.den
                 < r.maxMB.num * BYTES_PER_MB]_vars

\* C31 witness: a recorder appended after two others that had appended since
\* its size check, or (with two recorders) after the other one, and the log
\* has reached the size limit
C31_Witness ==
  \E p \in Recorders :
    /\ recorders[p].appended /\ recorders[p].pc = "read"
    /\ \A q \in Recorders : recorders[q].appended /\ ~recorders[q].rotated
    /\ Len(files[recorders[p].file].lines) = MaxRecorders
    /\ SumBytes(files[recorders[p].file].lines) * recorders[p].maxMB.den
         >= recorders[p].maxMB.num * BYTES_PER_MB

\* the lines of a log or of an archive entry hold the record
HoldsRecord(lines, obs) == \E i \in 1..Len(lines) : lines[i] = obs

\* C32: when concurrent recorders all find the log at or over the size
\* limit, the log is rotated once and no observation is lost: every one of
\* them completes its append and its increment, and its record is in the
\* active log or in an archive entry.
C32_ConcurrentRotationLosesNothing ==
  (\A p \in Recorders :
     /\ recorders[p].pc = "done"
     /\ recorders[p].rotated \/ ~recorders[p].appended)
  => /\ Cardinality({p \in Recorders : recorders[p].rotated}) = 1
     /\ \A p \in Recorders :
          /\ recorders[p].appended /\ recorders[p].incremented
          /\ \/ HoldsRecord(files[recorders[p].file].lines, recorders[p].obs)
             \/ \E n \in DOMAIN archive.entries :
                  HoldsRecord(archive.entries[n], recorders[p].obs)

\* C33: every record in a 'processed-' archive entry was in the log when the
\* analyzer of that pass was invoked: the lines an analysis pass archives
\* are lines the log held at the invocation.
C33_ArchivedWasAnalysed ==
  [][(analysis.pc = "archive" /\ analysis'.pc = "reset"
        /\ files[analysis.file].exists) =>
       LET name == ArchiveName("processed", now)
       IN /\ name \in DOMAIN archive'.entries
          /\ \A i \in 1..Len(archive'.entries[name]) :
               HoldsRecord(analysis.seen, archive'.entries[name][i])]_vars

\* C34: the counter never over-counts: once a reset of a session has
\* completed, the value in its counter file does not exceed the number of
\* increment calls of the session started since the most recent completed
\* reset, however increments and resets interleave.
C34_NeverOverCounts ==
  \A sid \in {S1, Default} :
    LET c == sanitizeSessionId(sid)
        started == {p \in Recorders :
                      /\ recorders[p].sinceReset
                      /\ sanitizeSessionId(recorders[p].h.sessionId) = c}
    IN (lastRun.op = "reset" /\ lastRun.sid = sid
          /\ counters[c].exists /\ ~counters[c].nan)
       => counters[c].n <= Cardinality(started)

\* C35: the counters of different sessions are isolated: for two distinct
\* session identifiers A and B, incrementCounter(A) and resetCounter(A)
\* leave getCounter(B) as it was.
C35_SessionsIsolated ==
  [][\A A, B \in SessionIds :
       /\ A # B
       /\ Ran("increment") \/ Ran("reset")
       /\ lastRun'.sid = A
       => getCounter(World', B) = getCounter(World, B)]_vars

\* C36: in failure-free runs that do not overlap, the counter of a session
\* equals the number of records of the session appended since its counter
\* file was last absent: a run that appends its record adds exactly one to
\* the counter of its session and leaves the other counters alone, and a run
\* that appends nothing adds nothing.
C36_CounterEqualsRecords ==
  [][/\ \A c \in CounterNames :
          getCounter(World', c) = Num(incs'[c])
     /\ Ran("record") =>
          LET c == sanitizeSessionId(lastRun'.sid)
              f == lastRun'.file
          IN IF lastRun'.branch = "recorded"
             THEN /\ files'[f].exists
                  /\ LastLine.session = lastRun'.sid
                  /\ RecordsOf(files'[f].lines) \in
                       {RecordsOf(files[f].lines) + 1, 1}
                  /\ counters'[c].exists /\ ~counters'[c].nan
                  /\ counters'[c].n = getCounter(World, c).n + 1
                  /\ incs'[c] = incs[c] + 1
                  /\ \A d \in CounterNames \ {c} : counters'[d] = counters[d]
             ELSE UNCHANGED <<files, counters, incs>>]_vars

\* C36 witness: after an analysis pass reset the counter of the session, one
\* more record was appended and the counter reads 1, with the earlier
\* record of the session in the archive
C36_Witness ==
  /\ lastRun.op = "record"
  /\ lastRun.branch = "recorded"
  /\ getCounter(World, lastRun.sid) = Num(1)
  /\ \E n \in DOMAIN archive.entries :
       /\ n[1] = "processed"
       /\ \E i \in 1..Len(archive.entries[n]) :
            /\ ~IsBlank(archive.entries[n][i])
            /\ archive.entries[n][i].session = lastRun.sid
            /\ archive.entries[n][i] # SeedLine

\* C37: the decision of maybeAnalyze (skip, analyse, mark pending) is
\* determined by the disable marker, the number of non-blank lines of the
\* log, the threshold and the analyzer's availability, and not by the
\* session counter: a run on the same state with any counter file replaced
\* by another content takes the same branch, exits alike, invokes the
\* analyzer alike and leaves the same log, archive and pending marker.
C37_DecisionIgnoresCounter ==
  [][Ran("maybeAnalyze") =>
       LET claudeExists == lastRun'.kind = "claude"
           decision == IF NonBlankLines(lastRun'.file) < Threshold THEN "skip"
                       ELSE IF claudeExists THEN "analyzed" ELSE "pending"
       IN /\ lastRun'.branch = decision
          /\ \A c \in CounterNames, k \in CounterFiles, flag \in BOOLEAN,
                status \in AnalyzerStatuses :
               LET a == analyzeMain(World, flag, configFile, sessionEnv,
                                    claudeExists, status, now, {})
                   b == analyzeMain([World EXCEPT !.counters[c] = k], flag,
                                    configFile, sessionEnv, claudeExists,
                                    status, now, {})
               IN /\ a.branch = b.branch
                  /\ a.exit = b.exit
                  /\ a.analyzer = b.analyzer
                  /\ a.w.files = b.w.files
                  /\ a.w.archive = b.w.archive
                  /\ a.w.pending = b.w.pending
                  /\ a.branch = IF flag THEN "disabled" ELSE decision
                  /\ ~flag => /\ a.w.files = files'
                              /\ a.w.archive = archive'
                              /\ a.w.pending = pending']_vars

\* C37 witness: a pass skipped the analysis of a log below the threshold
\* while the counter of its session had counted two records
C37_Witness ==
  /\ lastRun.op = "maybeAnalyze"
  /\ lastRun.branch = "skip"
  /\ lastRun.arg >= 2
  /\ getCounter(World, lastRun.sid) = Num(lastRun.arg)
  /\ NonBlankLines(lastRun.file) = lastRun.arg

\* C38: every run of record and every run of maybeAnalyze terminates: a
\* process that has started reaches its exit, with status 0, whatever the
\* analyzer's exit status and also when the timeout kills it.
C38_RunsTerminate ==
  /\ (recorders[1].pc # "idle") ~>
       (recorders[1].pc = "done" /\ recorders[1].exit = 0)
  /\ (analysis.pc # "idle") ~> (analysis.pc = "done" /\ analysis.exit = 0)

\* C38 witness: the analyzer was killed by the timeout, the pass archived
\* the log and exited, and the recorder running beside it exited too
C38_Witness ==
  /\ analysis.pc = "done"
  /\ analysis.branch = "analyzed"
  /\ analysis.status = -1
  /\ analysis.exit = 0
  /\ recorders[1].pc = "done"
  /\ recorders[1].incremented

\* C39: a run of the format hook or of the type-check hook writes to stdout
\* exactly what arrived on stdin, up to the first MAX_STDIN code units, and
\* exits 0, on every branch: invalid JSON, a file of another type, a
\* missing file, no binary, and a tool that fails or is killed by its
\* timeout.
C39_PostEditPassesThrough ==
  lastRun.op \in {"postEditFormat", "postEditTypecheck"} =>
    /\ lastRun.exit = 0
    /\ lastRun.arg.stdout = FirstUnits(lastRun.arg.stdin, 1, MAX_STDIN)
    /\ Units(lastRun.arg.stdout) <= MAX_STDIN

\* C39 witness: the type-checker was run on a payload that came in two
\* chunks and was killed by its timeout, and both chunks are on stdout
C39_Witness ==
  /\ lastRun.op = "postEditTypecheck"
  /\ lastRun.branch = "timeout"
  /\ lastRun.analyzer = 1
  /\ lastRun.exit = 0
  /\ Len(lastRun.arg.stdin) = 2
  /\ Units(lastRun.arg.stdout) = 64

====
